---------------------------- MODULE Spec2Model ----------------------------
(***************************************************************************)
(* Model of the JSON <-> MessagePack converter of src/src/main.rs.         *)
(*                                                                         *)
(* Texts (Rust &str / String) are sequences of UTF-8 bytes, byte buffers   *)
(* (Vec<u8>) are sequences of bytes, both written as sequences of numbers  *)
(* in 0..255.  The two public functions json_to_messagepack and            *)
(* messagepack_to_json are composed of the library calls they make; each   *)
(* library call is modelled by an operator that computes what the call     *)
(* computes: the JSON reader and pretty writer of serde_json (built        *)
(* without preserve_order, as test_json_to_messagepack fixes), the         *)
(* MessagePack writer and reader of rmp_serde, hex::decode, and the        *)
(* STANDARD base64 engine.                                                 *)
(*                                                                         *)
(* The text after the stage label of an error message is the library's     *)
(* description of the failure.  src/ pins no library version; the texts    *)
(* are those of base64 0.22, hex 0.4, serde_json 1.0 and rmp-serde 1.      *)
(* serde_json appends " at line L column C" to its description; the model  *)
(* gives the description without that position.  Every other description   *)
(* is given whole: for rmp_serde the Display of its Error with the io      *)
(* error, the UTF-8 error or the serde message it carries.  A float has    *)
(* its decimal text only when it is a multiple of 1/2 below 2^20; no input *)
(* of the model holds another float (lemma Modelled).                      *)
(***************************************************************************)
EXTENDS Integers, Sequences, FiniteSets, TLC

VARIABLES
    \* struct MessagePackJsonConverterApp (main.rs:10-16)
    json_input, messagepack_output, messagepack_input, json_output,
    error_message,
    last_click,     \* history: the outcome of the most recent button click
    clipboard,      \* the text on the system clipboard (main.rs:177-180)
    app,            \* "running", or "panicked" once an unwrap has failed
    \* one call of a public function, stage by stage (main.rs:152-171)
    fn,             \* the function being run
    arg,            \* its argument
    pc,             \* the statement it is at
    json_value,     \* local json_value
    messagepack,    \* local messagepack
    ret,            \* the value returned
    stages,         \* history: the stages this call has run, in order
    prev            \* history: the calls completed before this one

vars == <<json_input, messagepack_output, messagepack_input, json_output,
          error_message, last_click, clipboard, app,
          fn, arg, pc, json_value, messagepack, ret, stages, prev>>

gui_vars == <<json_input, messagepack_output, messagepack_input, json_output,
              error_message, last_click, clipboard, app>>

env_vars == <<clipboard, app>>

call_vars == <<fn, arg, pc, json_value, messagepack, ret, stages, prev>>

---------------------------------------------------------------------------
(* Sequences of bytes *)

RECURSIVE Concat(_)
\* The concatenation of a sequence of sequences (by halves).
Concat(ss) ==
    IF ss = <<>> THEN <<>>
    ELSE IF Len(ss) = 1 THEN ss[1]
    ELSE LET h == Len(ss) \div 2
         IN  Concat(SubSeq(ss, 1, h)) \o Concat(SubSeq(ss, h + 1, Len(ss)))

Rev(s) == [i \in 1..Len(s) |-> s[Len(s) + 1 - i]]

Drop(s, n) == SubSeq(s, n + 1, Len(s))

\* e, once x has its value.  The model checker computes the parameters of an
\* operator when they are first used; a long chain of pending computations is
\* cut by asking for each link's value before the next is made.
Force(x, e) == IF x = x THEN e ELSE e

\* s starts with p
StartsWith(s, p) == Len(p) <= Len(s) /\ SubSeq(s, 1, Len(p)) = p

\* Result<T, String>
Ok(v) == [ok |-> TRUE, val |-> v]
Err(msg) == [ok |-> FALSE, val |-> msg]

---------------------------------------------------------------------------
(* is_hex, hex::decode, hex::encode *)

\* a faulty variant of is_digit16: the capital letters are no hex digits
is_digit16_lower_only(c) == (c >= 48 /\ c <= 57) \/ (c >= 97 /\ c <= 102)

\* char::is_digit(16) on a byte of the text (a byte of a non-ASCII character is
\* >= 128 and no hex digit, as the character is none)
is_digit16(c) ==
    \/ (c >= 48 /\ c <= 57)        \* '0'..'9'
    \/ (c >= 97 /\ c <= 102)       \* 'a'..'f'
    \/ (c >= 65 /\ c <= 70)        \* 'A'..'F'

is_hex(s) == \A i \in 1..Len(s) : is_digit16(s[i])

hex_val(c) ==
    IF c >= 48 /\ c <= 57 THEN c - 48
    ELSE IF c >= 97 /\ c <= 102 THEN c - 87
    ELSE IF c >= 65 /\ c <= 70 THEN c - 55
    ELSE -1

RECURSIVE nat_text(_)
\* the decimal digits of n >= 0 (Display of an integer)
nat_text(n) == IF n < 10 THEN <<48 + n>> ELSE Append(nat_text(n \div 10), 48 + (n % 10))

HexChars == <<48, 49, 50, 51, 52, 53, 54, 55, 56, 57, 97, 98, 99, 100, 101, 102>>

E_OddLength == <<79, 100, 100, 32, 110, 117, 109, 98, 101, 114, 32, 111, 102, 32, 100, 105, 103, 105, 116, 115>>
    \* "Odd number of digits"

\* Debug of the char the byte c is taken for (c as char, U+0000 to U+00FF):
\* between quotes, the character itself when it is printable and neither a
\* quote nor a backslash, an escape when not
char_debug(c) ==
    LET hex == IF c < 16 THEN <<HexChars[c + 1]>>
               ELSE <<HexChars[(c \div 16) + 1], HexChars[(c % 16) + 1]>>
        body == IF c = 0 THEN <<92, 48>>
                ELSE IF c = 9 THEN <<92, 116>>
                ELSE IF c = 10 THEN <<92, 110>>
                ELSE IF c = 13 THEN <<92, 114>>
                ELSE IF c = 39 THEN <<92, 39>>
                ELSE IF c = 92 THEN <<92, 92>>
                ELSE IF c >= 32 /\ c <= 126 THEN <<c>>
                \* controls, the no-break space and the soft hyphen
                ELSE IF c <= 160 \/ c = 173 THEN <<92, 117, 123>> \o hex \o <<125>>
                \* the UTF-8 of U+00A1 to U+00FF
                ELSE <<194 + (c \div 192), 128 + (c % 64)>>
    IN  <<39>> \o body \o <<39>>

\* Display of FromHexError::InvalidHexCharacter; index counts from 0
E_InvalidHexCharacter(c, index) ==
    <<73, 110, 118, 97, 108, 105, 100, 32, 99, 104, 97, 114, 97, 99, 116, 101, 114, 32>> \o char_debug(c) \o <<32, 97, 116, 32, 112, 111, 115, 105, 116, 105, 111, 110, 32>> \o nat_text(index)
    \* "Invalid character {c:?} at position {index}"

\* hex::decode
hex_decode(s) ==
    LET bad == {i \in 1..Len(s) : hex_val(s[i]) < 0}
        first_bad == CHOOSE i \in bad : \A j \in bad : i <= j
    IN  IF Len(s) % 2 = 1 THEN Err(E_OddLength)
        ELSE IF bad # {} THEN Err(E_InvalidHexCharacter(s[first_bad], first_bad - 1))
        ELSE Ok([i \in 1..(Len(s) \div 2) |-> 16 * hex_val(s[2 * i - 1]) + hex_val(s[2 * i])])

\* hex::encode
hex_encode(b) ==
    [i \in 1..(2 * Len(b)) |->
        IF i % 2 = 1 THEN HexChars[(b[(i + 1) \div 2] \div 16) + 1]
                     ELSE HexChars[(b[i \div 2] % 16) + 1]]

---------------------------------------------------------------------------
(* general_purpose::STANDARD: the standard alphabet, canonical padding *)

B64Alphabet == <<65, 66, 67, 68, 69, 70, 71, 72, 73, 74, 75, 76, 77, 78, 79, 80, 81, 82, 83, 84, 85, 86, 87, 88, 89, 90, 97, 98, 99, 100, 101, 102, 103, 104, 105, 106, 107, 108, 109, 110, 111, 112, 113, 114, 115, 116, 117, 118, 119, 120, 121, 122, 48, 49, 50, 51, 52, 53, 54, 55, 56, 57, 43, 47>>

\* the value of a symbol of the alphabet, -1 for any other byte
b64_val(c) ==
    IF c >= 65 /\ c <= 90 THEN c - 65
    ELSE IF c >= 97 /\ c <= 122 THEN c - 71
    ELSE IF c >= 48 /\ c <= 57 THEN c + 4
    ELSE IF c = 43 THEN 62
    ELSE IF c = 47 THEN 63
    ELSE -1

RECURSIVE STANDARD_encode(_)
\* Engine::encode
STANDARD_encode(b) ==
    IF Len(b) = 0 THEN <<>>
    ELSE IF Len(b) = 1 THEN
        << B64Alphabet[(b[1] \div 4) + 1],
           B64Alphabet[((b[1] % 4) * 16) + 1], 61, 61 >>
    ELSE IF Len(b) = 2 THEN
        << B64Alphabet[(b[1] \div 4) + 1],
           B64Alphabet[((b[1] % 4) * 16 + b[2] \div 16) + 1],
           B64Alphabet[((b[2] % 16) * 4) + 1], 61 >>
    ELSE
        << B64Alphabet[(b[1] \div 4) + 1],
           B64Alphabet[((b[1] % 4) * 16 + b[2] \div 16) + 1],
           B64Alphabet[((b[2] % 16) * 4 + b[3] \div 64) + 1],
           B64Alphabet[(b[3] % 64) + 1] >> \o STANDARD_encode(Drop(b, 3))

\* Display of DecodeError; index counts the bytes of the text from 0
E_InvalidByte(index, byte) ==
    <<73, 110, 118, 97, 108, 105, 100, 32, 115, 121, 109, 98, 111, 108, 32>> \o nat_text(byte) \o <<44, 32, 111, 102, 102, 115, 101, 116, 32>> \o nat_text(index) \o <<46>>
    \* "Invalid symbol {byte}, offset {index}."
E_InvalidLength(len) ==
    <<73, 110, 118, 97, 108, 105, 100, 32, 105, 110, 112, 117, 116, 32, 108, 101, 110, 103, 116, 104, 58, 32>> \o nat_text(len)
    \* "Invalid input length: {len}"
E_InvalidPadding == <<73, 110, 118, 97, 108, 105, 100, 32, 112, 97, 100, 100, 105, 110, 103>>
    \* "Invalid padding"
E_InvalidLastSymbol(index, byte) ==
    <<73, 110, 118, 97, 108, 105, 100, 32, 108, 97, 115, 116, 32, 115, 121, 109, 98, 111, 108, 32>> \o nat_text(byte) \o <<44, 32, 111, 102, 102, 115, 101, 116, 32>> \o nat_text(index) \o <<46>>
    \* "Invalid last symbol {byte}, offset {index}."

\* the bytes of the symbols q (values 0..63), whole quads first, then the 2 or 3
\* symbols that are left
RECURSIVE b64_bytes(_)
b64_bytes(q) ==
    IF Len(q) < 2 THEN <<>>
    ELSE IF Len(q) = 2 THEN << q[1] * 4 + q[2] \div 16 >>
    ELSE IF Len(q) = 3 THEN << q[1] * 4 + q[2] \div 16, (q[2] % 16) * 16 + q[3] \div 4 >>
    ELSE << q[1] * 4 + q[2] \div 16, (q[2] % 16) * 16 + q[3] \div 4,
            (q[3] % 4) * 64 + q[4] >> \o b64_bytes(Drop(q, 4))

\* Engine::decode with the STANDARD engine (canonical padding required, no
\* trailing bits allowed).  The quads before the last are decoded first, a
\* '=' among them is a symbol that is none; the last quad, whole or not, may
\* end in '=' after two or three symbols.  The first failure met is returned.
STANDARD_decode(s) ==
    LET n == Len(s)
        rem == n % 4
        \* the length of the quads before the last one
        quads_len == IF n = 0 THEN 0 ELSE IF rem = 0 THEN n - 4 ELSE n - rem
        suffix == SubSeq(s, quads_len + 1, n)
        bad_quad == {i \in 1..quads_len : b64_val(s[i]) < 0}
        first_bad == CHOOSE i \in bad_quad : \A j \in bad_quad : i <= j
        pads_before(k) == {j \in 1..(k - 1) : suffix[j] = 61}
        \* the suffix fails at its k-th byte
        fails(k) ==
            IF suffix[k] = 61 THEN k <= 2
            ELSE pads_before(k) # {} \/ b64_val(suffix[k]) < 0
        bad_suffix == {k \in 1..Len(suffix) : fails(k)}
        k_bad == CHOOSE k \in bad_suffix : \A j \in bad_suffix : k <= j
        first_pad == CHOOSE j \in pads_before(k_bad) : \A x \in pads_before(k_bad) : j <= x
        padding_bytes_count == Cardinality({k \in 1..Len(suffix) : suffix[k] = 61})
        morsels_in_leftover == Len(suffix) - padding_bytes_count
        q == [i \in 1..(quads_len + morsels_in_leftover) |-> b64_val(s[i])]
        last == quads_len + morsels_in_leftover
    IN  IF rem = 1 /\ s[n] # 61 /\ b64_val(s[n]) < 0 THEN Err(E_InvalidByte(n - 1, s[n]))
        ELSE IF bad_quad # {} THEN Err(E_InvalidByte(first_bad - 1, s[first_bad]))
        ELSE IF bad_suffix # {} THEN
            (IF suffix[k_bad] # 61 /\ pads_before(k_bad) # {}
             THEN Err(E_InvalidByte(quads_len + first_pad - 1, 61))
             ELSE Err(E_InvalidByte(quads_len + k_bad - 1, suffix[k_bad])))
        ELSE IF n > 0 /\ morsels_in_leftover < 2
        THEN Err(E_InvalidLength(quads_len + morsels_in_leftover))
        ELSE IF (padding_bytes_count + morsels_in_leftover) % 4 # 0 THEN Err(E_InvalidPadding)
        ELSE IF morsels_in_leftover = 2 /\ q[last] % 16 # 0
        THEN Err(E_InvalidLastSymbol(last - 1, s[last]))
        ELSE IF morsels_in_leftover = 3 /\ q[last] % 4 # 0
        THEN Err(E_InvalidLastSymbol(last - 1, s[last]))
        ELSE Ok(b64_bytes(q))

---------------------------------------------------------------------------
(* The descriptions of the errors of serde_json and rmp_serde (without the   *)
(* position or the offending value they append)                              *)

E_EofList == <<69, 79, 70, 32, 119, 104, 105, 108, 101, 32, 112, 97, 114, 115, 105, 110, 103, 32, 97, 32, 108, 105, 115, 116>>
    \* "EOF while parsing a list"
E_EofObject == <<69, 79, 70, 32, 119, 104, 105, 108, 101, 32, 112, 97, 114, 115, 105, 110, 103, 32, 97, 110, 32, 111, 98, 106, 101, 99, 116>>
    \* "EOF while parsing an object"
E_EofString == <<69, 79, 70, 32, 119, 104, 105, 108, 101, 32, 112, 97, 114, 115, 105, 110, 103, 32, 97, 32, 115, 116, 114, 105, 110, 103>>
    \* "EOF while parsing a string"
E_EofValue == <<69, 79, 70, 32, 119, 104, 105, 108, 101, 32, 112, 97, 114, 115, 105, 110, 103, 32, 97, 32, 118, 97, 108, 117, 101>>
    \* "EOF while parsing a value"
E_ExpectedColon == <<101, 120, 112, 101, 99, 116, 101, 100, 32, 96, 58, 96>>
    \* "expected `:`"
E_ExpectedListCommaOrEnd == <<101, 120, 112, 101, 99, 116, 101, 100, 32, 96, 44, 96, 32, 111, 114, 32, 96, 93, 96>>
    \* "expected `,` or `]`"
E_ExpectedObjectCommaOrEnd == <<101, 120, 112, 101, 99, 116, 101, 100, 32, 96, 44, 96, 32, 111, 114, 32, 96, 125, 96>>
    \* "expected `,` or `}`"
E_ExpectedSomeIdent == <<101, 120, 112, 101, 99, 116, 101, 100, 32, 105, 100, 101, 110, 116>>
    \* "expected ident"
E_ExpectedSomeValue == <<101, 120, 112, 101, 99, 116, 101, 100, 32, 118, 97, 108, 117, 101>>
    \* "expected value"
E_InvalidEscape == <<105, 110, 118, 97, 108, 105, 100, 32, 101, 115, 99, 97, 112, 101>>
    \* "invalid escape"
E_InvalidNumber == <<105, 110, 118, 97, 108, 105, 100, 32, 110, 117, 109, 98, 101, 114>>
    \* "invalid number"
E_KeyMustBeAString == <<107, 101, 121, 32, 109, 117, 115, 116, 32, 98, 101, 32, 97, 32, 115, 116, 114, 105, 110, 103>>
    \* "key must be a string"
E_ControlCharacter == <<99, 111, 110, 116, 114, 111, 108, 32, 99, 104, 97, 114, 97, 99, 116, 101, 114, 32, 40, 92, 117, 48, 48, 48, 48, 45, 92, 117, 48, 48, 49, 70, 41, 32, 102, 111, 117, 110, 100, 32, 119, 104, 105, 108, 101, 32, 112, 97, 114, 115, 105, 110, 103, 32, 97, 32, 115, 116, 114, 105, 110, 103>>
    \* "control character (\u0000-\u001F) found while parsing a string"
E_TrailingComma == <<116, 114, 97, 105, 108, 105, 110, 103, 32, 99, 111, 109, 109, 97>>
    \* "trailing comma"
E_TrailingCharacters == <<116, 114, 97, 105, 108, 105, 110, 103, 32, 99, 104, 97, 114, 97, 99, 116, 101, 114, 115>>
    \* "trailing characters"
\* Display of rmp_serde::decode::Error
E_MarkerRead == <<73, 79, 32, 101, 114, 114, 111, 114, 32, 119, 104, 105, 108, 101, 32, 114, 101, 97, 100, 105, 110, 103, 32, 109, 97, 114, 107, 101, 114, 58, 32, 102, 97, 105, 108, 101, 100, 32, 116, 111, 32, 102, 105, 108, 108, 32, 119, 104, 111, 108, 101, 32, 98, 117, 102, 102, 101, 114>>
    \* "IO error while reading marker: failed to fill whole buffer"
E_DataRead == <<73, 79, 32, 101, 114, 114, 111, 114, 32, 119, 104, 105, 108, 101, 32, 114, 101, 97, 100, 105, 110, 103, 32, 100, 97, 116, 97, 58, 32, 102, 97, 105, 108, 101, 100, 32, 116, 111, 32, 102, 105, 108, 108, 32, 119, 104, 111, 108, 101, 32, 98, 117, 102, 102, 101, 114>>
    \* "IO error while reading data: failed to fill whole buffer"
E_SliceRead == <<73, 79, 32, 101, 114, 114, 111, 114, 32, 119, 104, 105, 108, 101, 32, 114, 101, 97, 100, 105, 110, 103, 32, 100, 97, 116, 97, 58, 32, 117, 110, 101, 120, 112, 101, 99, 116, 101, 100, 32, 101, 110, 100, 32, 111, 102, 32, 102, 105, 108, 101>>
    \* "IO error while reading data: unexpected end of file"
E_TypeMismatch == <<119, 114, 111, 110, 103, 32, 109, 115, 103, 112, 97, 99, 107, 32, 109, 97, 114, 107, 101, 114, 32, 82, 101, 115, 101, 114, 118, 101, 100>>
    \* "wrong msgpack marker Reserved"
\* Utf8Error: error_len is 0 where the text ends inside a sequence
E_Utf8Error(valid_up_to, error_len) ==
    <<115, 116, 114, 105, 110, 103, 32, 102, 111, 117, 110, 100, 32, 116, 111, 32, 98, 101, 32, 105, 110, 118, 97, 108, 105, 100, 32, 117, 116, 102, 56, 58, 32>> \o
    (IF error_len = 0
     THEN <<105, 110, 99, 111, 109, 112, 108, 101, 116, 101, 32, 117, 116, 102, 45, 56, 32, 98, 121, 116, 101, 32, 115, 101, 113, 117, 101, 110, 99, 101, 32, 102, 114, 111, 109, 32, 105, 110, 100, 101, 120, 32>> \o nat_text(valid_up_to)
     ELSE <<105, 110, 118, 97, 108, 105, 100, 32, 117, 116, 102, 45, 56, 32, 115, 101, 113, 117, 101, 110, 99, 101, 32, 111, 102, 32>> \o nat_text(error_len) \o <<32, 98, 121, 116, 101, 115, 32, 102, 114, 111, 109, 32, 105, 110, 100, 101, 120, 32>> \o nat_text(valid_up_to))
    \* "string found to be invalid utf8: incomplete utf-8 byte sequence from index {}"
    \* "string found to be invalid utf8: invalid utf-8 sequence of {} bytes from index {}"

\* what a visitor says it expects: the visitor of Value, KeyClassifier (the
\* first key of a map), the visitor of String (a later key)
Expected(visitor) ==
    IF visitor = "Value" THEN <<97, 110, 121, 32, 118, 97, 108, 105, 100, 32, 74, 83, 79, 78, 32, 118, 97, 108, 117, 101>>
    ELSE IF visitor = "KeyClassifier" THEN <<97, 32, 115, 116, 114, 105, 110, 103, 32, 107, 101, 121>>
    ELSE <<97, 32, 115, 116, 114, 105, 110, 103>>
    \* "any valid JSON value", "a string key", "a string"

\* Display of serde::de::Unexpected
U_Unit == <<117, 110, 105, 116, 32, 118, 97, 108, 117, 101>>
    \* "unit value"
U_Bool(b) == <<98, 111, 111, 108, 101, 97, 110, 32, 96>> \o (IF b THEN <<116, 114, 117, 101>> ELSE <<102, 97, 108, 115, 101>>) \o <<96>>
    \* "boolean `{}`"
U_Integer(text) == <<105, 110, 116, 101, 103, 101, 114, 32, 96>> \o text \o <<96>>
    \* "integer `{}`"
U_Float(text) == <<102, 108, 111, 97, 116, 105, 110, 103, 32, 112, 111, 105, 110, 116, 32, 96>> \o text \o <<96>>
    \* "floating point `{}`"
U_Bytes == <<98, 121, 116, 101, 32, 97, 114, 114, 97, 121>>
    \* "byte array"
U_NewtypeStruct == <<110, 101, 119, 116, 121, 112, 101, 32, 115, 116, 114, 117, 99, 116>>
    \* "newtype struct"
U_Seq == <<115, 101, 113, 117, 101, 110, 99, 101>>
    \* "sequence"
U_Map == <<109, 97, 112>>
    \* "map"

\* serde::de::Error::invalid_type and invalid_value
E_InvalidType(unexpected, visitor) ==
    <<105, 110, 118, 97, 108, 105, 100, 32, 116, 121, 112, 101, 58, 32>> \o unexpected \o <<44, 32, 101, 120, 112, 101, 99, 116, 101, 100, 32>> \o Expected(visitor)
    \* "invalid type: {}, expected {}"
E_InvalidValue(unexpected, visitor) ==
    <<105, 110, 118, 97, 108, 105, 100, 32, 118, 97, 108, 117, 101, 58, 32>> \o unexpected \o <<44, 32, 101, 120, 112, 101, 99, 116, 101, 100, 32>> \o Expected(visitor)
    \* "invalid value: {}, expected {}"

\* what a reader or writer of the model answers outside the fragment it models
E_Unmodelled == <<60, 111, 117, 116, 115, 105, 100, 101, 32, 116, 104, 101, 32, 109, 111, 100, 101, 108, 108, 101, 100, 32, 102, 114, 97, 103, 109, 101, 110, 116, 62>>
    \* "<outside the modelled fragment>"

\* the stage labels of the format! calls of main.rs:154-170

L_ParseJson == <<70, 97, 105, 108, 101, 100, 32, 116, 111, 32, 112, 97, 114, 115, 101, 32, 74, 83, 79, 78, 58, 32>>
    \* "Failed to parse JSON: "
L_SerializeMessagePack == <<70, 97, 105, 108, 101, 100, 32, 116, 111, 32, 115, 101, 114, 105, 97, 108, 105, 122, 101, 32, 116, 111, 32, 77, 101, 115, 115, 97, 103, 101, 80, 97, 99, 107, 58, 32>>
    \* "Failed to serialize to MessagePack: "
L_DecodeHex == <<70, 97, 105, 108, 101, 100, 32, 116, 111, 32, 100, 101, 99, 111, 100, 101, 32, 72, 101, 120, 58, 32>>
    \* "Failed to decode Hex: "
L_DecodeBase64 == <<70, 97, 105, 108, 101, 100, 32, 116, 111, 32, 100, 101, 99, 111, 100, 101, 32, 66, 97, 115, 101, 54, 52, 58, 32>>
    \* "Failed to decode Base64: "
L_DeserializeMessagePack == <<70, 97, 105, 108, 101, 100, 32, 116, 111, 32, 100, 101, 115, 101, 114, 105, 97, 108, 105, 122, 101, 32, 77, 101, 115, 115, 97, 103, 101, 80, 97, 99, 107, 58, 32>>
    \* "Failed to deserialize MessagePack: "
L_SerializeJson == <<70, 97, 105, 108, 101, 100, 32, 116, 111, 32, 115, 101, 114, 105, 97, 108, 105, 122, 101, 32, 116, 111, 32, 74, 83, 79, 78, 58, 32>>
    \* "Failed to serialize to JSON: "

---------------------------------------------------------------------------
(* serde_json::Value.  A Number is N::PosInt(u64), N::NegInt(i64) or            *)
(* N::Float(f64): an integer is held as its magnitude, the big-endian bytes     *)
(* without leading zeros (<<>> is 0), a float as the 8 bytes of its IEEE 754    *)
(* bits.  An Object is the BTreeMap<String, Value> of a build without           *)
(* preserve_order: its entries in ascending order of the keys' bytes.           *)

Null == [t |-> "Null"]
Bool(b) == [t |-> "Bool", b |-> b]
PosInt(mag) == [t |-> "PosInt", mag |-> mag]
NegInt(mag) == [t |-> "NegInt", mag |-> mag]
Float(bits) == [t |-> "Float", bits |-> bits]
String(s) == [t |-> "String", s |-> s]
Array(a) == [t |-> "Array", a |-> a]
Object(m) == [t |-> "Object", m |-> m]

Entry(k, v) == [k |-> k, v |-> v]

\* String's Ord: the bytes, lexicographically
str_lt(a, b) ==
    \E i \in 1..Len(b) :
        /\ \A j \in 1..(i - 1) : j <= Len(a) /\ a[j] = b[j]
        /\ (i > Len(a) \/ a[i] < b[i])

\* a faulty variant of map_insert: a key that is present keeps its first value
map_insert_keep_first(m, k, v) ==
    IF \E i \in 1..Len(m) : m[i].k = k THEN m
    ELSE LET n == Cardinality({i \in 1..Len(m) : str_lt(m[i].k, k)})
         IN  SubSeq(m, 1, n) \o <<Entry(k, v)>> \o SubSeq(m, n + 1, Len(m))

\* a faulty variant of map_insert: the entries stay in the order of their insertion
map_insert_in_order(m, k, v) ==
    IF \E i \in 1..Len(m) : m[i].k = k
    THEN [i \in 1..Len(m) |-> IF m[i].k = k THEN Entry(k, v) ELSE m[i]]
    ELSE Append(m, Entry(k, v))

\* Map::insert (BTreeMap::insert): the value of a key that is present is
\* replaced, a new key goes to its place in the order
map_insert(m, k, v) ==
    IF \E i \in 1..Len(m) : m[i].k = k
    THEN [i \in 1..Len(m) |-> IF m[i].k = k THEN Entry(k, v) ELSE m[i]]
    ELSE LET n == Cardinality({i \in 1..Len(m) : str_lt(m[i].k, k)})
         IN  SubSeq(m, 1, n) \o <<Entry(k, v)>> \o SubSeq(m, n + 1, Len(m))

\* What the visitor of a map does with an entry it has read.  With raw, the
\* entries are kept as they were read, repeated keys included: this is not a
\* run of the program, it is how a property speaks of the order of an input.
collect(m, k, v, raw) == IF raw THEN Append(m, Entry(k, v)) ELSE map_insert(m, k, v)

---------------------------------------------------------------------------
(* Magnitudes of integers *)

RECURSIVE strip(_)
\* without the leading zero bytes
strip(b) == IF b # <<>> /\ b[1] = 0 THEN strip(Tail(b)) ELSE b

\* b on n bytes, zero bytes in front
pad(b, n) == [i \in 1..(n - Len(b)) |-> 0] \o b

RECURSIVE muladd_le(_, _, _)
\* le * mul + carry, least significant byte first
muladd_le(le, mul, carry) ==
    IF le = <<>>
    THEN (IF carry = 0 THEN <<>> ELSE <<carry % 256>> \o muladd_le(<<>>, mul, carry \div 256))
    ELSE LET x == le[1] * mul + carry
         IN  <<x % 256>> \o muladd_le(Tail(le), mul, x \div 256)

\* mag * mul + add
mag_muladd(mag, mul, add) == strip(Rev(muladd_le(Rev(mag), mul, add)))

RECURSIVE divmod10(_, _, _)
\* <<quotient bytes, remainder>> of the big-endian bytes b by 10
divmod10(b, rem, acc) ==
    IF b = <<>> THEN <<strip(acc), rem>>
    ELSE LET cur == rem * 256 + b[1]
         IN  Force(acc, divmod10(Tail(b), cur % 10, Append(acc, cur \div 10)))

RECURSIVE mag_decimal(_)
\* itoa: the decimal digits of a magnitude
mag_decimal(mag) ==
    IF mag = <<>> THEN <<48>>
    ELSE LET qr == divmod10(mag, 0, <<>>)
         IN  IF qr[1] = <<>> THEN <<48 + qr[2]>>
             ELSE Append(mag_decimal(qr[1]), 48 + qr[2])

\* mag <= 2^(8n-1), the magnitudes of the negative numbers of n bytes
fits_signed(mag, n) ==
    \/ Len(mag) < n
    \/ Len(mag) = n /\ mag[1] < 128
    \/ Len(mag) = n /\ mag[1] = 128 /\ \A i \in 2..n : mag[i] = 0

\* the two's complement of b on the same number of bytes: 256^Len(b) - b
negate(b) ==
    Rev(SubSeq(muladd_le(Rev([i \in 1..Len(b) |-> 255 - b[i]]), 1, 1), 1, Len(b)))

---------------------------------------------------------------------------
(* f64.  The decimal text of a float is read and written for the floats     *)
(* n/2 with n < 2^21 (an integer part and the fraction .0 or .5); for any   *)
(* other float the reader and the writer answer Unmodelled, and no input of *)
(* the model takes them there.                                              *)

RECURSIVE log2(_)
\* the position of the highest bit of n >= 1
log2(n) == IF n <= 1 THEN 0 ELSE 1 + log2(n \div 2)

\* the bits of the f64 (-1)^neg * twice / 2
f64_bits(neg, twice) ==
    LET sign == IF neg THEN 128 ELSE 0
    IN  IF twice = 0 THEN <<sign, 0, 0, 0, 0, 0, 0, 0>>
        ELSE LET p == log2(twice)
                 biased == 1022 + p
                 m20 == (twice - 2^p) * 2^(20 - p)
             IN  << sign + biased \div 16, (biased % 16) * 16 + m20 \div 65536,
                    (m20 \div 256) % 256, m20 % 256, 0, 0, 0, 0 >>

f64_is_finite(bits) == ~((bits[1] % 128) = 127 /\ bits[2] \div 16 = 15)

\* ryu: the shortest decimal text of the float
f64_text(bits) ==
    LET neg == bits[1] >= 128
        biased == (bits[1] % 128) * 16 + bits[2] \div 16
        m20 == (bits[2] % 16) * 65536 + bits[3] * 256 + bits[4]
        low0 == \A i \in 5..8 : bits[i] = 0
        p == biased - 1022
        full == 1048576 + m20
        twice == full \div 2^(20 - p)
        whole == twice \div 2
        sgn == IF neg THEN <<45>> ELSE <<>>
    IN  IF biased = 0 /\ m20 = 0 /\ low0 THEN sgn \o <<48, 46, 48>>
        ELSE IF low0 /\ p >= 0 /\ p <= 20 /\ full % 2^(20 - p) = 0
        THEN sgn \o mag_decimal(strip(<<whole \div 65536, (whole \div 256) % 256, whole % 256>>))
                 \o <<46, IF twice % 2 = 1 THEN 53 ELSE 48>>
        ELSE E_Unmodelled
---------------------------------------------------------------------------
(* serde_json::from_str::<Value>.  A reader answers [ok, val, pos]: the     *)
(* value read and the index of the first byte after it, or [ok |-> FALSE,   *)
(* val |-> the description of the error].  Values nest far less deeply in   *)
(* the inputs of the model than the reader's recursion limit.               *)

Read(v, pos) == [ok |-> TRUE, val |-> v, pos |-> pos]

is_ws(c) == c = 32 \/ c = 10 \/ c = 9 \/ c = 13
is_digit(c) == c >= 48 /\ c <= 57

RECURSIVE skip_ws(_, _)
\* parse_whitespace
skip_ws(s, i) == IF i <= Len(s) /\ is_ws(s[i]) THEN skip_ws(s, i + 1) ELSE i

RECURSIVE digits_end(_, _)
\* the index of the first byte at or after i that is no digit
digits_end(s, i) == IF i <= Len(s) /\ is_digit(s[i]) THEN digits_end(s, i + 1) ELSE i

RECURSIVE digits_mag(_, _, _, _)
\* the magnitude of the digits s[i..j-1]
digits_mag(s, i, j, acc) ==
    IF i >= j THEN acc
    ELSE LET next == mag_muladd(acc, 10, s[i] - 48)
         IN  Force(next, digits_mag(s, i + 1, j, next))

\* the UTF-8 bytes of a code point below 0x10000 that is no surrogate
utf8(cp) ==
    IF cp < 128 THEN <<cp>>
    ELSE IF cp < 2048 THEN <<192 + cp \div 64, 128 + (cp % 64)>>
    ELSE <<224 + cp \div 4096, 128 + ((cp \div 64) % 64), 128 + (cp % 64)>>

\* parse_ident: the bytes of word after its first
parse_ident(s, i, word, v) ==
    LET bad == {j \in 2..Len(word) : i + j - 1 > Len(s) \/ s[i + j - 1] # word[j]}
    IN  IF bad = {} THEN Read(v, i + Len(word))
        ELSE LET j == CHOOSE x \in bad : \A y \in bad : x <= y
             IN  IF i + j - 1 > Len(s) THEN Err(E_EofValue) ELSE Err(E_ExpectedSomeIdent)

\* parse_integer and parse_number, at the first byte after an optional '-'
parse_number(s, i, neg) ==
    IF i > Len(s) THEN Err(E_EofValue)
    ELSE IF ~is_digit(s[i]) THEN Err(E_InvalidNumber)
    ELSE
    LET j == IF s[i] = 48 THEN i + 1 ELSE digits_end(s, i)
        mag == digits_mag(s, i, j, <<>>)
    IN  IF s[i] = 48 /\ j <= Len(s) /\ is_digit(s[j]) THEN Err(E_InvalidNumber)
        ELSE IF j <= Len(s) /\ s[j] = 46 THEN
            \* parse_decimal
            LET k == digits_end(s, j + 1)
            IN  IF k = j + 1
                THEN (IF k > Len(s) THEN Err(E_EofValue) ELSE Err(E_InvalidNumber))
                ELSE IF /\ k = j + 2 /\ s[j + 1] \in {48, 53}
                        /\ (k > Len(s) \/ s[k] \notin {69, 101})
                        /\ Len(mag) <= 2
                THEN Read(Float(f64_bits(neg,
                        2 * (IF mag = <<>> THEN 0
                             ELSE IF Len(mag) = 1 THEN mag[1]
                             ELSE 256 * mag[1] + mag[2])
                        + (IF s[j + 1] = 53 THEN 1 ELSE 0))), k)
                ELSE Err(E_Unmodelled)
        ELSE IF j <= Len(s) /\ s[j] \in {69, 101} THEN Err(E_Unmodelled)   \* an exponent
        ELSE IF Len(mag) > 8 THEN Err(E_Unmodelled)          \* beyond u64: read as f64
        ELSE IF ~neg THEN Read(PosInt(mag), j)
        ELSE IF mag = <<>> THEN Read(Float(f64_bits(TRUE, 0)), j)         \* -0 is -0.0
        ELSE IF fits_signed(mag, 8) THEN Read(NegInt(mag), j)
        ELSE Err(E_Unmodelled)                               \* below i64: read as f64

RECURSIVE parse_str(_, _, _)
\* parse_str, at the first byte after the opening quote
parse_str(s, i, acc) ==
    IF i > Len(s) THEN Err(E_EofString)
    ELSE IF s[i] = 34 THEN Read(acc, i + 1)
    ELSE IF s[i] < 32 THEN Err(E_ControlCharacter)
    ELSE IF s[i] # 92 THEN
        \* the bytes up to the next quote, backslash or control character
        LET stop == {j \in i..Len(s) : s[j] = 34 \/ s[j] = 92 \/ s[j] < 32}
            j == IF stop = {} THEN Len(s) + 1 ELSE CHOOSE x \in stop : \A y \in stop : x <= y
        IN  Force(acc, parse_str(s, j, acc \o SubSeq(s, i, j - 1)))
    ELSE IF i + 1 > Len(s) THEN Err(E_EofString)
    ELSE LET e == s[i + 1]
         IN  IF e = 34 \/ e = 92 \/ e = 47 THEN parse_str(s, i + 2, Append(acc, e))
             ELSE IF e = 98 THEN parse_str(s, i + 2, Append(acc, 8))
             ELSE IF e = 102 THEN parse_str(s, i + 2, Append(acc, 12))
             ELSE IF e = 110 THEN parse_str(s, i + 2, Append(acc, 10))
             ELSE IF e = 114 THEN parse_str(s, i + 2, Append(acc, 13))
             ELSE IF e = 116 THEN parse_str(s, i + 2, Append(acc, 9))
             ELSE IF e = 117 THEN
                 IF i + 5 > Len(s) THEN Err(E_EofString)
                 ELSE IF \E j \in 2..5 : hex_val(s[i + j]) < 0 THEN Err(E_InvalidEscape)
                 ELSE LET cp == 4096 * hex_val(s[i + 2]) + 256 * hex_val(s[i + 3])
                                + 16 * hex_val(s[i + 4]) + hex_val(s[i + 5])
                      IN  IF cp >= 55296 /\ cp <= 57343 THEN Err(E_Unmodelled)   \* a surrogate
                          ELSE parse_str(s, i + 6, acc \o utf8(cp))
             ELSE Err(E_InvalidEscape)

RECURSIVE parse_value(_, _, _)
RECURSIVE parse_seq(_, _, _, _, _)
RECURSIVE parse_map(_, _, _, _, _)

\* Deserializer::deserialize_any with the visitor of Value, at the first byte
\* that is no whitespace
parse_value(s, i, raw) ==
    IF i > Len(s) THEN Err(E_EofValue)
    ELSE IF s[i] = 110 THEN parse_ident(s, i, <<110, 117, 108, 108>>, Null)
    ELSE IF s[i] = 116 THEN parse_ident(s, i, <<116, 114, 117, 101>>, Bool(TRUE))
    ELSE IF s[i] = 102 THEN parse_ident(s, i, <<102, 97, 108, 115, 101>>, Bool(FALSE))
    ELSE IF s[i] = 45 THEN parse_number(s, i + 1, TRUE)
    ELSE IF is_digit(s[i]) THEN parse_number(s, i, FALSE)
    ELSE IF s[i] = 34 THEN
        LET r == parse_str(s, i + 1, <<>>)
        IN  IF r.ok THEN Read(String(r.val), r.pos) ELSE r
    ELSE IF s[i] = 91 THEN parse_seq(s, i + 1, TRUE, <<>>, raw)
    ELSE IF s[i] = 123 THEN parse_map(s, i + 1, TRUE, <<>>, raw)
    ELSE Err(E_ExpectedSomeValue)

\* SeqAccess::next_element_seed until the list ends, then end_seq
parse_seq(s, i, first, acc, raw) ==
    LET j == skip_ws(s, i)
    IN  IF j > Len(s) THEN Err(E_EofList)
        ELSE IF s[j] = 93 THEN Read(Array(acc), j + 1)
        ELSE IF ~first /\ s[j] # 44 THEN Err(E_ExpectedListCommaOrEnd)
        ELSE LET k == IF first THEN j ELSE skip_ws(s, j + 1)
             IN  IF k > Len(s) THEN Err(E_EofValue)
                 ELSE IF s[k] = 93 THEN Err(E_TrailingComma)
                 ELSE LET r == parse_value(s, k, raw)
                      IN  IF r.ok THEN Force(acc, parse_seq(s, r.pos, FALSE, Append(acc, r.val), raw))
                          ELSE r

\* MapAccess::next_key_seed and next_value_seed until the object ends, then
\* end_map
parse_map(s, i, first, acc, raw) ==
    LET j == skip_ws(s, i)
    IN  IF j > Len(s) THEN Err(E_EofObject)
        ELSE IF s[j] = 125 THEN Read(Object(acc), j + 1)
        ELSE IF ~first /\ s[j] # 44 THEN Err(E_ExpectedObjectCommaOrEnd)
        ELSE LET k == IF first THEN j ELSE skip_ws(s, j + 1)
             IN  IF k > Len(s) THEN Err(E_EofValue)
                 ELSE IF s[k] = 125 THEN Err(E_TrailingComma)
                 ELSE IF s[k] # 34 THEN Err(E_KeyMustBeAString)
                 ELSE LET key == parse_str(s, k + 1, <<>>)
                          c == skip_ws(s, key.pos)
                          v == parse_value(s, skip_ws(s, c + 1), raw)
                      IN  IF ~key.ok THEN key
                          ELSE IF c > Len(s) THEN Err(E_EofObject)
                          ELSE IF s[c] # 58 THEN Err(E_ExpectedColon)
                          ELSE IF ~v.ok THEN v
                          ELSE Force(acc, parse_map(s, v.pos, FALSE, collect(acc, key.val, v.val, raw), raw))

\* the document: one value, then nothing but whitespace (Deserializer::end)
read_document(s, raw) ==
    LET r == parse_value(s, skip_ws(s, 1), raw)
    IN  IF ~r.ok THEN Err(r.val)
        ELSE IF skip_ws(s, r.pos) <= Len(s) THEN Err(E_TrailingCharacters)
        ELSE Ok(r.val)

\* serde_json::from_str::<serde_json::Value>
from_str(s) == read_document(s, FALSE)

---------------------------------------------------------------------------
(* rmp_serde::to_vec(&Value): the Serialize of Value on the MessagePack     *)
(* writer.  It fails for no Value (the error of main.rs:156 needs a value   *)
(* the writer cannot represent, and a Value read from JSON is none).        *)

\* rmp::encode::write_uint: the shortest format that holds the value
write_uint(mag) ==
    IF mag = <<>> THEN <<0>>
    ELSE IF Len(mag) = 1 /\ mag[1] < 128 THEN mag
    ELSE IF Len(mag) = 1 THEN <<204>> \o mag
    ELSE IF Len(mag) = 2 THEN <<205>> \o mag
    ELSE IF Len(mag) <= 4 THEN <<206>> \o pad(mag, 4)
    ELSE <<207>> \o pad(mag, 8)

\* a faulty variant of write_sint: a negative number always takes the 64-bit format
write_sint_wide(mag) == <<211>> \o negate(pad(mag, 8))

\* rmp::encode::write_sint for the negative number -mag
write_sint(mag) ==
    IF Len(mag) = 1 /\ mag[1] <= 32 THEN <<256 - mag[1]>>
    ELSE IF fits_signed(mag, 1) THEN <<208>> \o negate(pad(mag, 1))
    ELSE IF fits_signed(mag, 2) THEN <<209>> \o negate(pad(mag, 2))
    ELSE IF fits_signed(mag, 4) THEN <<210>> \o negate(pad(mag, 4))
    ELSE <<211>> \o negate(pad(mag, 8))

\* the n bytes of the length len < 2^31
len_bytes(len, n) == [i \in 1..n |-> (len \div 256^(n - i)) % 256]

\* rmp::encode::write_str
write_str(s) ==
    (IF Len(s) < 32 THEN <<160 + Len(s)>>
     ELSE IF Len(s) < 256 THEN <<217>> \o len_bytes(Len(s), 1)
     ELSE IF Len(s) < 65536 THEN <<218>> \o len_bytes(Len(s), 2)
     ELSE <<219>> \o len_bytes(Len(s), 4)) \o s

\* rmp::encode::write_array_len
write_array_len(n) ==
    IF n < 16 THEN <<144 + n>>
    ELSE IF n < 65536 THEN <<220>> \o len_bytes(n, 2)
    ELSE <<221>> \o len_bytes(n, 4)

\* rmp::encode::write_map_len
write_map_len(n) ==
    IF n < 16 THEN <<128 + n>>
    ELSE IF n < 65536 THEN <<222>> \o len_bytes(n, 2)
    ELSE <<223>> \o len_bytes(n, 4)

RECURSIVE serialize(_)
\* Value::serialize on rmp_serde::Serializer
serialize(v) ==
    IF v.t = "Null" THEN <<192>>
    ELSE IF v.t = "Bool" THEN (IF v.b THEN <<195>> ELSE <<194>>)
    ELSE IF v.t = "PosInt" THEN write_uint(v.mag)
    ELSE IF v.t = "NegInt" THEN write_sint(v.mag)
    ELSE IF v.t = "Float" THEN <<203>> \o v.bits
    ELSE IF v.t = "String" THEN write_str(v.s)
    ELSE IF v.t = "Array"
    THEN write_array_len(Len(v.a)) \o Concat([i \in 1..Len(v.a) |-> serialize(v.a[i])])
    ELSE write_map_len(Len(v.m))
         \o Concat([i \in 1..Len(v.m) |-> write_str(v.m[i].k) \o serialize(v.m[i].v)])

\* rmp_serde::to_vec
to_vec(v) == Ok(serialize(v))

---------------------------------------------------------------------------
(* rmp_serde::from_slice::<Value>: one value is read from the start of the  *)
(* buffer, with the visitor of Value; what follows it is not looked at.     *)
(* Values nest far less deeply in the inputs of the model than the          *)
(* reader's depth limit.                                                    *)

RECURSIVE from_utf8(_, _)
\* str::from_utf8(s[i..]): ok, or the index (from 0) of the first byte that
\* starts no character and the length of what is wrong there (0: the text
\* ends inside a character)
from_utf8(s, i) ==
    IF i > Len(s) THEN [ok |-> TRUE, valid_up_to |-> Len(s), error_len |-> 0]
    ELSE LET c == s[i]
             has(j) == j <= Len(s)
             cont(j, lo, hi) == s[j] >= lo /\ s[j] <= hi
             bad(n) == [ok |-> FALSE, valid_up_to |-> i - 1, error_len |-> n]
             lo2 == IF c = 224 THEN 160 ELSE IF c = 240 THEN 144 ELSE 128
             hi2 == IF c = 237 THEN 159 ELSE IF c = 244 THEN 143 ELSE 191
         IN  IF c < 128 THEN from_utf8(s, i + 1)
             ELSE IF c >= 194 /\ c <= 223 THEN
                 IF ~has(i + 1) THEN bad(0)
                 ELSE IF ~cont(i + 1, 128, 191) THEN bad(1)
                 ELSE from_utf8(s, i + 2)
             ELSE IF c >= 224 /\ c <= 239 THEN
                 IF ~has(i + 1) THEN bad(0)
                 ELSE IF ~cont(i + 1, lo2, hi2) THEN bad(1)
                 ELSE IF ~has(i + 2) THEN bad(0)
                 ELSE IF ~cont(i + 2, 128, 191) THEN bad(2)
                 ELSE from_utf8(s, i + 3)
             ELSE IF c >= 240 /\ c <= 244 THEN
                 IF ~has(i + 1) THEN bad(0)
                 ELSE IF ~cont(i + 1, lo2, hi2) THEN bad(1)
                 ELSE IF ~has(i + 2) THEN bad(0)
                 ELSE IF ~cont(i + 2, 128, 191) THEN bad(2)
                 ELSE IF ~has(i + 3) THEN bad(0)
                 ELSE IF ~cont(i + 3, 128, 191) THEN bad(3)
                 ELSE from_utf8(s, i + 4)
             ELSE bad(1)

\* the f64 an f32 widens to (visit_f32 forwards `v as f64`)
f32_to_f64(b) ==
    LET sign == IF b[1] >= 128 THEN 128 ELSE 0
        e8 == (b[1] % 128) * 2 + b[2] \div 128
        m23 == (b[2] % 128) * 65536 + b[3] * 256 + b[4]
        p == log2(m23)
        \* a subnormal f32 is normal as f64, an infinite f32 or a NaN stays one
        e == IF e8 = 0 THEN 874 + p ELSE IF e8 = 255 THEN 2047 ELSE e8 + 896
        m == IF e8 = 0 THEN (m23 - 2^p) * 2^(23 - p) ELSE m23
        \* a NaN comes out quiet: the highest bit of the mantissa is set
        quiet == IF e8 = 255 /\ m23 # 0 /\ m23 < 4194304 THEN 8 ELSE 0
    IN  IF e8 = 0 /\ m23 = 0 THEN <<sign, 0, 0, 0, 0, 0, 0, 0>>
        ELSE << sign + e \div 16, (e % 16) * 16 + m \div 524288 + quiet, (m \div 2048) % 256,
                (m \div 8) % 256, (m % 8) * 32, 0, 0, 0 >>

\* the visitor takes the value v read up to pos: the visitor of Value takes
\* every value, KeyClassifier and the visitor of String refuse what is no
\* string
visit(visitor, v, pos, unexpected) ==
    IF visitor = "Value" THEN Read(v, pos) ELSE Err(E_InvalidType(unexpected, visitor))

\* visit_u64 of the n bytes at i
read_unsigned(b, i, n, visitor) ==
    IF i + n - 1 > Len(b) THEN Err(E_DataRead)
    ELSE LET mag == strip(SubSeq(b, i, i + n - 1))
         IN  visit(visitor, PosInt(mag), i + n, U_Integer(mag_decimal(mag)))

\* a faulty variant of read_signed: the bytes are taken for an unsigned number
read_signed_as_unsigned(b, i, n, visitor) ==
    IF i + n - 1 > Len(b) THEN Err(E_DataRead)
    ELSE LET mag == strip(SubSeq(b, i, i + n - 1))
         IN  visit(visitor, PosInt(mag), i + n, U_Integer(mag_decimal(mag)))

\* visit_i64 of the n bytes at i: Number::from(i64) is NegInt below zero
read_signed(b, i, n, visitor) ==
    IF i + n - 1 > Len(b) THEN Err(E_DataRead)
    ELSE LET x == SubSeq(b, i, i + n - 1)
             mag == IF x[1] >= 128 THEN strip(negate(x)) ELSE strip(x)
         IN  IF x[1] >= 128
             THEN visit(visitor, NegInt(mag), i + n, U_Integer(<<45>> \o mag_decimal(mag)))
             ELSE visit(visitor, PosInt(mag), i + n, U_Integer(mag_decimal(mag)))

\* The length in the n bytes at i, -1 when the buffer ends before.  A length
\* of 2^24 or more is more than any buffer of the model holds and is read as
\* one more than the buffer's.
read_len(b, i, n) ==
    IF i + n - 1 > Len(b) THEN -1
    ELSE IF n = 4 /\ b[i] > 0 THEN Len(b) + 1
    ELSE IF n = 1 THEN b[i]
    ELSE IF n = 2 THEN 256 * b[i] + b[i + 1]
    ELSE 65536 * b[i + 1] + 256 * b[i + 2] + b[i + 3]

\* read_str_data: visit_str of the len bytes at i when they are UTF-8, which
\* every visitor takes; visit_bytes when not, which none takes, and the
\* failure is Utf8Error
read_str(b, i, len) ==
    IF len < 0 THEN Err(E_DataRead)
    ELSE IF i + len - 1 > Len(b) THEN Err(E_SliceRead)
    ELSE LET s == SubSeq(b, i, i + len - 1)
             u == from_utf8(s, 1)
         IN  IF u.ok THEN Read(String(s), i + len)
             ELSE Err(E_Utf8Error(u.valid_up_to, u.error_len))

\* visit_bytes of the len bytes at i: the visitor of Value and KeyClassifier
\* do not take it, the visitor of String takes bytes that are UTF-8
read_bin(b, i, len, visitor) ==
    IF len < 0 THEN Err(E_DataRead)
    ELSE IF i + len - 1 > Len(b) THEN Err(E_SliceRead)
    ELSE LET s == SubSeq(b, i, i + len - 1)
         IN  IF visitor # "String" THEN Err(E_InvalidType(U_Bytes, visitor))
             ELSE IF from_utf8(s, 1).ok THEN Read(String(s), i + len)
             ELSE Err(E_InvalidValue(U_Bytes, visitor))

\* visit_newtype_struct, which no visitor here takes, once the length of the
\* ext is read (n bytes at i, none for a fixext)
read_ext(b, i, n, visitor) ==
    IF n > 0 /\ read_len(b, i, n) < 0 THEN Err(E_DataRead)
    ELSE Err(E_InvalidType(U_NewtypeStruct, visitor))

\* visit_f64 of the float x: the visitor of Value makes a float that is not
\* finite null
read_float(x, pos, visitor) ==
    LET text == IF f64_is_finite(x) THEN f64_text(x)
                ELSE IF x[2] % 16 # 0 \/ \E k \in 3..8 : x[k] # 0 THEN <<78, 97, 78>>
                ELSE IF x[1] >= 128 THEN <<45, 105, 110, 102>>
                ELSE <<105, 110, 102>>
    IN  IF visitor # "Value" THEN Err(E_InvalidType(U_Float(text), visitor))
        ELSE IF f64_is_finite(x) THEN Read(Float(x), pos)
        ELSE Read(Null, pos)

RECURSIVE read_value(_, _, _, _)
RECURSIVE read_array(_, _, _, _, _)
RECURSIVE read_map(_, _, _, _, _, _)

\* Deserializer::deserialize_any with the given visitor, at the marker b[i]
read_value(b, i, visitor, raw) ==
    IF i > Len(b) THEN Err(E_MarkerRead)
    ELSE
    LET m == b[i]
        \* visit_seq and visit_map, once the length n is read
        array(pos, n) ==
            IF n < 0 THEN Err(E_DataRead)
            ELSE IF visitor # "Value" THEN Err(E_InvalidType(U_Seq, visitor))
            ELSE read_array(b, pos, n, <<>>, raw)
        map(pos, n) ==
            IF n < 0 THEN Err(E_DataRead)
            ELSE IF visitor # "Value" THEN Err(E_InvalidType(U_Map, visitor))
            ELSE read_map(b, pos, n, TRUE, <<>>, raw)
    IN  IF m < 128 THEN read_unsigned(b, i, 1, visitor)
        ELSE IF m < 144 THEN map(i + 1, m - 128)
        ELSE IF m < 160 THEN array(i + 1, m - 144)
        ELSE IF m < 192 THEN read_str(b, i + 1, m - 160)
        ELSE IF m = 192 THEN visit(visitor, Null, i + 1, U_Unit)
        ELSE IF m = 193 THEN Err(E_TypeMismatch)
        ELSE IF m = 194 THEN visit(visitor, Bool(FALSE), i + 1, U_Bool(FALSE))
        ELSE IF m = 195 THEN visit(visitor, Bool(TRUE), i + 1, U_Bool(TRUE))
        ELSE IF m = 196 THEN read_bin(b, i + 2, read_len(b, i + 1, 1), visitor)
        ELSE IF m = 197 THEN read_bin(b, i + 3, read_len(b, i + 1, 2), visitor)
        ELSE IF m = 198 THEN read_bin(b, i + 5, read_len(b, i + 1, 4), visitor)
        ELSE IF m = 199 THEN read_ext(b, i + 1, 1, visitor)
        ELSE IF m = 200 THEN read_ext(b, i + 1, 2, visitor)
        ELSE IF m = 201 THEN read_ext(b, i + 1, 4, visitor)
        ELSE IF m = 202 THEN
            IF i + 4 > Len(b) THEN Err(E_DataRead)
            ELSE read_float(f32_to_f64(SubSeq(b, i + 1, i + 4)), i + 5, visitor)
        ELSE IF m = 203 THEN
            IF i + 8 > Len(b) THEN Err(E_DataRead)
            ELSE read_float(SubSeq(b, i + 1, i + 8), i + 9, visitor)
        ELSE IF m = 204 THEN read_unsigned(b, i + 1, 1, visitor)
        ELSE IF m = 205 THEN read_unsigned(b, i + 1, 2, visitor)
        ELSE IF m = 206 THEN read_unsigned(b, i + 1, 4, visitor)
        ELSE IF m = 207 THEN read_unsigned(b, i + 1, 8, visitor)
        ELSE IF m = 208 THEN read_signed(b, i + 1, 1, visitor)
        ELSE IF m = 209 THEN read_signed(b, i + 1, 2, visitor)
        ELSE IF m = 210 THEN read_signed(b, i + 1, 4, visitor)
        ELSE IF m = 211 THEN read_signed(b, i + 1, 8, visitor)
        ELSE IF m <= 216 THEN read_ext(b, i + 1, 0, visitor)
        ELSE IF m = 217 THEN read_str(b, i + 2, read_len(b, i + 1, 1))
        ELSE IF m = 218 THEN read_str(b, i + 3, read_len(b, i + 1, 2))
        ELSE IF m = 219 THEN read_str(b, i + 5, read_len(b, i + 1, 4))
        ELSE IF m = 220 THEN array(i + 3, read_len(b, i + 1, 2))
        ELSE IF m = 221 THEN array(i + 5, read_len(b, i + 1, 4))
        ELSE IF m = 222 THEN map(i + 3, read_len(b, i + 1, 2))
        ELSE IF m = 223 THEN map(i + 5, read_len(b, i + 1, 4))
        ELSE read_signed(b, i, 1, visitor)

\* visit_seq of the visitor of Value: the n elements that are left
read_array(b, i, n, acc, raw) ==
    IF n = 0 THEN Read(Array(acc), i)
    ELSE LET r == read_value(b, i, "Value", raw)
         IN  IF r.ok THEN Force(acc, read_array(b, r.pos, n - 1, Append(acc, r.val), raw)) ELSE r

\* visit_map of the visitor of Value: the n entries that are left.  The first
\* key is read for KeyClassifier (next_key_seed), each later key for String
\* (next_entry), every value for Value.
read_map(b, i, n, first, acc, raw) ==
    IF n = 0 THEN Read(Object(acc), i)
    ELSE LET key == read_value(b, i, IF first THEN "KeyClassifier" ELSE "String", raw)
             v == read_value(b, key.pos, "Value", raw)
         IN  IF ~key.ok THEN key
             ELSE IF ~v.ok THEN v
             ELSE Force(acc, read_map(b, v.pos, n - 1, FALSE,
                                      collect(acc, key.val.s, v.val, raw), raw))

\* the first value of the buffer
read_first(b, raw) ==
    LET r == read_value(b, 1, "Value", raw)
    IN  IF r.ok THEN Ok(r.val) ELSE Err(r.val)

\* rmp_serde::from_slice::<serde_json::Value>
from_slice(b) == read_first(b, FALSE)

---------------------------------------------------------------------------
(* serde_json::to_string_pretty(&Value): PrettyFormatter, two spaces a level *)
(* It fails for no Value (the error of main.rs:170 needs a map key that is   *)
(* no string, and an Object has none).                                       *)

\* format_escaped_str_contents, byte by byte
escape(c) ==
    IF c = 34 THEN <<92, 34>>
    ELSE IF c = 92 THEN <<92, 92>>
    ELSE IF c = 8 THEN <<92, 98>>
    ELSE IF c = 12 THEN <<92, 102>>
    ELSE IF c = 10 THEN <<92, 110>>
    ELSE IF c = 13 THEN <<92, 114>>
    ELSE IF c = 9 THEN <<92, 116>>
    ELSE IF c < 32 THEN <<92, 117, 48, 48, HexChars[(c \div 16) + 1], HexChars[(c % 16) + 1]>>
    ELSE <<c>>

write_json_str(s) == <<34>> \o Concat([i \in 1..Len(s) |-> escape(s[i])]) \o <<34>>

indent(n) == [i \in 1..(2 * n) |-> 32]

RECURSIVE write_pretty(_, _)
\* the text of v inside n levels of nesting
write_pretty(v, n) ==
    IF v.t = "Null" THEN <<110, 117, 108, 108>>
    ELSE IF v.t = "Bool"
    THEN (IF v.b THEN <<116, 114, 117, 101>> ELSE <<102, 97, 108, 115, 101>>)
    ELSE IF v.t = "PosInt" THEN mag_decimal(v.mag)
    ELSE IF v.t = "NegInt" THEN <<45>> \o mag_decimal(v.mag)
    ELSE IF v.t = "Float" THEN f64_text(v.bits)
    ELSE IF v.t = "String" THEN write_json_str(v.s)
    ELSE IF v.t = "Array" THEN
        IF v.a = <<>> THEN <<91, 93>>
        ELSE <<91>>
             \o Concat([i \in 1..Len(v.a) |->
                    (IF i = 1 THEN <<10>> ELSE <<44, 10>>)
                    \o indent(n + 1) \o write_pretty(v.a[i], n + 1)])
             \o <<10>> \o indent(n) \o <<93>>
    ELSE
        IF v.m = <<>> THEN <<123, 125>>
        ELSE <<123>>
             \o Concat([i \in 1..Len(v.m) |->
                    (IF i = 1 THEN <<10>> ELSE <<44, 10>>)
                    \o indent(n + 1) \o write_json_str(v.m[i].k) \o <<58, 32>>
                    \o write_pretty(v.m[i].v, n + 1)])
             \o <<10>> \o indent(n) \o <<125>>

\* a faulty variant of to_string_pretty: the keys of an object are written last first
to_string_pretty_reversed(v) ==
    Ok(write_pretty(IF v.t = "Object" THEN Object(Rev(v.m)) ELSE v, 0))

\* serde_json::to_string_pretty
to_string_pretty(v) == Ok(write_pretty(v, 0))

---------------------------------------------------------------------------
(* The two public functions (main.rs:152-171), as functions of their text.  *)
(* Each `let` of the code binds a value: the result of a stage is computed  *)
(* once, as the one element of a set, and the next stage reads it.          *)

json_to_messagepack(json_str) ==
    CHOOSE result \in
        { IF ~parsed.ok THEN Err(L_ParseJson \o parsed.val)
          ELSE CHOOSE r \in
                { IF ~packed.ok THEN Err(L_SerializeMessagePack \o packed.val)
                  ELSE Ok(STANDARD_encode(packed.val))
                  : packed \in {to_vec(parsed.val)} } : TRUE
          : parsed \in {from_str(json_str)} } : TRUE

messagepack_to_json(encoded_str) ==
    CHOOSE result \in
        { IF ~decoded.ok
          THEN Err((IF is_hex(encoded_str) THEN L_DecodeHex ELSE L_DecodeBase64) \o decoded.val)
          ELSE CHOOSE r \in
                { IF ~value.ok THEN Err(L_DeserializeMessagePack \o value.val)
                  ELSE CHOOSE t \in
                        { IF ~text.ok THEN Err(L_SerializeJson \o text.val) ELSE text
                          : text \in {to_string_pretty(value.val)} } : TRUE
                  : value \in {from_slice(decoded.val)} } : TRUE
          : decoded \in { IF is_hex(encoded_str) THEN hex_decode(encoded_str)
                          ELSE STANDARD_decode(encoded_str) } } : TRUE

---------------------------------------------------------------------------
(* The inputs of the model: the texts a caller may pass *)

\* bounds
MaxEntries == 2     \* entries of a generated object or map
MaxTrail == 2       \* bytes added after a complete MessagePack value
MaxInt == 130       \* every integer from -MaxInt to MaxInt is an input
MaxCalls == 2       \* calls in a row, each on the text the one before returned

SeqsUpTo(S, n) == UNION {[1..k -> S] : k \in 0..n}

\* the JSON text of the integer n
int_text(n) == IF n < 0 THEN <<45>> \o nat_text(-n) ELSE nat_text(n)

SmallInts == (-MaxInt)..MaxInt

\* a key and a value, each as JSON text and as MessagePack bytes
GenKeys == { [json |-> <<34, 97, 34>>, mp |-> <<161, 97>>],        \* "a"
             [json |-> <<34, 98, 34>>, mp |-> <<161, 98>>] }       \* "b"
GenVals == { [json |-> <<49>>, mp |-> <<1>>],                      \* 1
             [json |-> <<34, 120, 34>>, mp |-> <<161, 120>>] }     \* "x"

\* the entries of an object, in every order, repeated keys included
GenEntries == SeqsUpTo(GenKeys \X GenVals, MaxEntries)

\* the JSON text {k:v,...} of the entries
object_text(es) ==
    <<123>>
    \o Concat([i \in 1..Len(es) |->
           (IF i = 1 THEN <<>> ELSE <<44>>) \o es[i][1].json \o <<58>> \o es[i][2].json])
    \o <<125>>

\* the MessagePack map of the entries, as they come
map_bytes(es) ==
    <<128 + Len(es)>> \o Concat([i \in 1..Len(es) |-> es[i][1].mp \o es[i][2].mp])

\* JSON texts that parse: the texts of the tests, every kind of value, the edges of the integer formats
JsonSamples == {
    \* null
    <<110, 117, 108, 108>>,
    \* true
    <<116, 114, 117, 101>>,
    \* false
    <<102, 97, 108, 115, 101>>,
    \* ""
    <<34, 34>>,
    \* "a"
    <<34, 97, 34>>,
    \* "a\"b\\c\n"
    <<34, 97, 92, 34, 98, 92, 92, 99, 92, 110, 34>>,
    \* "\u0041\u00e9"
    <<34, 92, 117, 48, 48, 52, 49, 92, 117, 48, 48, 101, 57, 34>>,
    \* "/"
    <<34, 47, 34>>,
    \* {"name":"Alice","age":30,"city":"Wonderland"}
    <<123, 34, 110, 97, 109, 101, 34, 58, 34, 65, 108, 105, 99, 101, 34, 44, 34, 97, 103, 101, 34, 58, 51, 48, 44, 34, 99, 105, 116, 121, 34, 58, 34, 87, 111, 110, 100, 101, 114, 108, 97, 110, 100, 34, 125>>,
    \* {"city":"Wonderland","name":"Alice","age":30}
    <<123, 34, 99, 105, 116, 121, 34, 58, 34, 87, 111, 110, 100, 101, 114, 108, 97, 110, 100, 34, 44, 34, 110, 97, 109, 101, 34, 58, 34, 65, 108, 105, 99, 101, 34, 44, 34, 97, 103, 101, 34, 58, 51, 48, 125>>,
    \* {}
    <<123, 125>>,
    \* []
    <<91, 93>>,
    \*  { } 
    <<32, 123, 32, 125, 32>>,
    \* [1, "a", null]
    <<91, 49, 44, 32, 34, 97, 34, 44, 32, 110, 117, 108, 108, 93>>,
    \* [[], {}]
    <<91, 91, 93, 44, 32, 123, 125, 93>>,
    \* [true,false,-716]
    <<91, 116, 114, 117, 101, 44, 102, 97, 108, 115, 101, 44, 45, 55, 49, 54, 93>>,
    \* {"a":1,"b":2,"a":3}
    <<123, 34, 97, 34, 58, 49, 44, 34, 98, 34, 58, 50, 44, 34, 97, 34, 58, 51, 125>>,
    \* {"b":{"z":1,"y":2},"a":[{"d":1,"c":2}]}
    <<123, 34, 98, 34, 58, 123, 34, 122, 34, 58, 49, 44, 34, 121, 34, 58, 50, 125, 44, 34, 97, 34, 58, 91, 123, 34, 100, 34, 58, 49, 44, 34, 99, 34, 58, 50, 125, 93, 125>>,
    \* {"ab":1,"a":2,"B":3}
    <<123, 34, 97, 98, 34, 58, 49, 44, 34, 97, 34, 58, 50, 44, 34, 66, 34, 58, 51, 125>>,
    \* {"a":{"k":1},"a":{"k":2}}
    <<123, 34, 97, 34, 58, 123, 34, 107, 34, 58, 49, 125, 44, 34, 97, 34, 58, 123, 34, 107, 34, 58, 50, 125, 125>>,
    \* 1.5
    <<49, 46, 53>>,
    \* -2.0
    <<45, 50, 46, 48>>,
    \* 0.5
    <<48, 46, 53>>,
    \* -0
    <<45, 48>>,
    \* [1.5, 100.0]
    <<91, 49, 46, 53, 44, 32, 49, 48, 48, 46, 48, 93>>,
    \* 30
    <<51, 48>>,
    \* 255
    <<50, 53, 53>>,
    \* 256
    <<50, 53, 54>>,
    \* 1000
    <<49, 48, 48, 48>>,
    \* 65535
    <<54, 53, 53, 51, 53>>,
    \* 65536
    <<54, 53, 53, 51, 54>>,
    \* 4294967295
    <<52, 50, 57, 52, 57, 54, 55, 50, 57, 53>>,
    \* 4294967296
    <<52, 50, 57, 52, 57, 54, 55, 50, 57, 54>>,
    \* 9223372036854775807
    <<57, 50, 50, 51, 51, 55, 50, 48, 51, 54, 56, 53, 52, 55, 55, 53, 56, 48, 55>>,
    \* 9223372036854775808
    <<57, 50, 50, 51, 51, 55, 50, 48, 51, 54, 56, 53, 52, 55, 55, 53, 56, 48, 56>>,
    \* 18446744073709551615
    <<49, 56, 52, 52, 54, 55, 52, 52, 48, 55, 51, 55, 48, 57, 53, 53, 49, 54, 49, 53>>,
    \* -716
    <<45, 55, 49, 54>>,
    \* -32768
    <<45, 51, 50, 55, 54, 56>>,
    \* -32769
    <<45, 51, 50, 55, 54, 57>>,
    \* -2147483648
    <<45, 50, 49, 52, 55, 52, 56, 51, 54, 52, 56>>,
    \* -2147483649
    <<45, 50, 49, 52, 55, 52, 56, 51, 54, 52, 57>>,
    \* -9223372036854775808
    <<45, 57, 50, 50, 51, 51, 55, 50, 48, 51, 54, 56, 53, 52, 55, 55, 53, 56, 48, 56>>,
    \* \n{\n  "k": [\n    1\n  ]\n}\n
    <<10, 123, 10, 32, 32, 34, 107, 34, 58, 32, 91, 10, 32, 32, 32, 32, 49, 10, 32, 32, 93, 10, 125, 10>>
}

\* texts that are no JSON document
JsonInvalid == {
    \* {"a":1,
    <<123, 34, 97, 34, 58, 49, 44>>,
    \* [1,
    <<91, 49, 44>>,
    \* {"name":"Alice","age":30,"city":Wonderland}
    <<123, 34, 110, 97, 109, 101, 34, 58, 34, 65, 108, 105, 99, 101, 34, 44, 34, 97, 103, 101, 34, 58, 51, 48, 44, 34, 99, 105, 116, 121, 34, 58, 87, 111, 110, 100, 101, 114, 108, 97, 110, 100, 125>>,
    \* (empty)
    <<>>,
    \*  
    <<32>>,
    \* {
    <<123>>,
    \* [1,]
    <<91, 49, 44, 93>>,
    \* {"a" 1}
    <<123, 34, 97, 34, 32, 49, 125>>,
    \* 1 2
    <<49, 32, 50>>,
    \* nul
    <<110, 117, 108>>,
    \* nuxl
    <<110, 117, 120, 108>>,
    \* "abc
    <<34, 97, 98, 99>>,
    \* 01
    <<48, 49>>,
    \* -
    <<45>>,
    \* {"a":1,}
    <<123, 34, 97, 34, 58, 49, 44, 125>>,
    \* [1 2]
    <<91, 49, 32, 50, 93>>,
    \* {1:2}
    <<123, 49, 58, 50, 125>>,
    \* {"a":1 "b":2}
    <<123, 34, 97, 34, 58, 49, 32, 34, 98, 34, 58, 50, 125>>,
    \* [
    <<91>>,
    \* {"a":
    <<123, 34, 97, 34, 58>>,
    \* "\x"
    <<34, 92, 120, 34>>,
    \* "a\nb"
    <<34, 97, 10, 98, 34>>,
    \* 1.
    <<49, 46>>,
    \* -x
    <<45, 120>>,
    \* }
    <<125>>
}

\* integers at the edges of the formats: the text, and the shortest MessagePack
\* integer format that holds the value (unsigned from 0, signed below)
WideInts == {
    \* 30: 1e
    [text |-> <<51, 48>>, bytes |-> <<30>>],
    \* 255: ccff
    [text |-> <<50, 53, 53>>, bytes |-> <<204, 255>>],
    \* 256: cd0100
    [text |-> <<50, 53, 54>>, bytes |-> <<205, 1, 0>>],
    \* 1000: cd03e8
    [text |-> <<49, 48, 48, 48>>, bytes |-> <<205, 3, 232>>],
    \* 65535: cdffff
    [text |-> <<54, 53, 53, 51, 53>>, bytes |-> <<205, 255, 255>>],
    \* 65536: ce00010000
    [text |-> <<54, 53, 53, 51, 54>>, bytes |-> <<206, 0, 1, 0, 0>>],
    \* 4294967295: ceffffffff
    [text |-> <<52, 50, 57, 52, 57, 54, 55, 50, 57, 53>>, bytes |-> <<206, 255, 255, 255, 255>>],
    \* 4294967296: cf0000000100000000
    [text |-> <<52, 50, 57, 52, 57, 54, 55, 50, 57, 54>>, bytes |-> <<207, 0, 0, 0, 1, 0, 0, 0, 0>>],
    \* 9223372036854775807: cf7fffffffffffffff
    [text |-> <<57, 50, 50, 51, 51, 55, 50, 48, 51, 54, 56, 53, 52, 55, 55, 53, 56, 48, 55>>, bytes |-> <<207, 127, 255, 255, 255, 255, 255, 255, 255>>],
    \* 9223372036854775808: cf8000000000000000
    [text |-> <<57, 50, 50, 51, 51, 55, 50, 48, 51, 54, 56, 53, 52, 55, 55, 53, 56, 48, 56>>, bytes |-> <<207, 128, 0, 0, 0, 0, 0, 0, 0>>],
    \* 18446744073709551615: cfffffffffffffffff
    [text |-> <<49, 56, 52, 52, 54, 55, 52, 52, 48, 55, 51, 55, 48, 57, 53, 53, 49, 54, 49, 53>>, bytes |-> <<207, 255, 255, 255, 255, 255, 255, 255, 255>>],
    \* -716: d1fd34
    [text |-> <<45, 55, 49, 54>>, bytes |-> <<209, 253, 52>>],
    \* -32768: d18000
    [text |-> <<45, 51, 50, 55, 54, 56>>, bytes |-> <<209, 128, 0>>],
    \* -32769: d2ffff7fff
    [text |-> <<45, 51, 50, 55, 54, 57>>, bytes |-> <<210, 255, 255, 127, 255>>],
    \* -2147483648: d280000000
    [text |-> <<45, 50, 49, 52, 55, 52, 56, 51, 54, 52, 56>>, bytes |-> <<210, 128, 0, 0, 0>>],
    \* -2147483649: d3ffffffff7fffffff
    [text |-> <<45, 50, 49, 52, 55, 52, 56, 51, 54, 52, 57>>, bytes |-> <<211, 255, 255, 255, 255, 127, 255, 255, 255>>],
    \* -9223372036854775808: d38000000000000000
    [text |-> <<45, 57, 50, 50, 51, 51, 55, 50, 48, 51, 54, 56, 53, 52, 55, 55, 53, 56, 48, 56>>, bytes |-> <<211, 128, 0, 0, 0, 0, 0, 0, 0>>]
}

JsonInputs ==
    JsonSamples \cup JsonInvalid
    \cup {object_text(es) : es \in GenEntries}
    \cup {int_text(n) : n \in SmallInts}

\* the bytes json_to_messagepack makes of the inputs that parse
ProducedBytes == {to_vec(from_str(j).val).val : j \in {x \in JsonInputs : from_str(x).ok}}

\* complete MessagePack values, and the bytes that come after one
TrailValues == { <<15>>, <<192>>, <<161, 97>>, <<129, 161, 97, 1>> }
TrailBytes == {0, 64}
Trails == SeqsUpTo(TrailBytes, MaxTrail) \ {<<>>}

\* transport texts of MessagePack values
MpSamples == {
    \* hex: {"a":1,"b":2}, the key b as bin
    <<56, 50, 97, 49, 54, 49, 48, 49, 99, 52, 48, 49, 54, 50, 48, 50>>,
    \* hex: {"a":1}, then a byte cut from a str
    <<56, 49, 97, 49, 54, 49, 48, 49, 97, 50>>,
    \* base64, the text of test_messagepack_to_json
    <<103, 54, 78, 104, 90, 50, 85, 101, 112, 71, 78, 112, 100, 72, 109, 113, 86, 50, 57, 117, 90, 71, 86, 121, 98, 71, 70, 117, 90, 75, 82, 117, 89, 87, 49, 108, 112, 85, 70, 115, 97, 87, 78, 108>>,
    \* hex, the text of test_messagepack_to_json_with_hex_input
    <<56, 51, 97, 51, 54, 49, 54, 55, 54, 53, 49, 101, 97, 52, 54, 51, 54, 57, 55, 52, 55, 57, 97, 97, 53, 55, 54, 102, 54, 101, 54, 52, 54, 53, 55, 50, 54, 99, 54, 49, 54, 101, 54, 52, 97, 52, 54, 101, 54, 49, 54, 100, 54, 53, 97, 53, 52, 49, 54, 99, 54, 57, 54, 51, 54, 53>>,
    \* the same in upper case
    <<56, 51, 65, 51, 54, 49, 54, 55, 54, 53, 49, 69, 65, 52, 54, 51, 54, 57, 55, 52, 55, 57, 65, 65, 53, 55, 54, 70, 54, 69, 54, 52, 54, 53, 55, 50, 54, 67, 54, 49, 54, 69, 54, 52, 65, 52, 54, 69, 54, 49, 54, 68, 54, 53, 65, 53, 52, 49, 54, 67, 54, 57, 54, 51, 54, 53>>,
    \* hex, upper case: nil
    <<67, 48>>,
    \* hex: nil
    <<99, 48>>,
    \* base64: nil
    <<119, 65, 61, 61>>,
    \* base64: 15
    <<68, 119, 61, 61>>,
    \* hex: f64 NaN
    <<99, 98, 55, 102, 102, 56, 48, 48, 48, 48, 48, 48, 48, 48, 48, 48, 48, 48>>,
    \* hex: f32 1.5
    <<99, 97, 51, 102, 99, 48, 48, 48, 48, 48>>,
    \* hex: f64 1.5
    <<99, 98, 51, 102, 102, 56, 48, 48, 48, 48, 48, 48, 48, 48, 48, 48, 48, 48>>,
    \* hex: int8 5
    <<100, 48, 48, 53>>,
    \* hex: int16 -716
    <<100, 49, 102, 100, 51, 52>>,
    \* hex: 15, then a byte
    <<48, 102, 48, 48>>,
    \* all hex digits, and the base64 of 0f 40 00
    <<68, 48, 65, 65>>,
    \* hex: {"b":1,"a":2}
    <<56, 50, 97, 49, 54, 50, 48, 49, 97, 49, 54, 49, 48, 50>>,
    \* hex: {"a":1,"a":2}
    <<56, 50, 97, 49, 54, 49, 48, 49, 97, 49, 54, 49, 48, 50>>,
    \* base64: {"b":1,"a":2}
    <<103, 113, 70, 105, 65, 97, 70, 104, 65, 103, 61, 61>>,
    \* hex: {"b":1,"a":2,"b":3}
    <<56, 51, 97, 49, 54, 50, 48, 49, 97, 49, 54, 49, 48, 50, 97, 49, 54, 50, 48, 51>>,
    \* hex: {"a":{"z":1,"y":2}}
    <<56, 49, 97, 49, 54, 49, 56, 50, 97, 49, 55, 97, 48, 49, 97, 49, 55, 57, 48, 50>>,
    \* hex: ["a",10]
    <<57, 50, 97, 49, 54, 49, 48, 97>>
}

\* transport texts that are refused
MpInvalid == {
    \* hex: a map whose first key is bin
    <<56, 49, 99, 52, 48, 49, 54, 49, 48, 49>>,
    \* hex: a map whose second key is an integer
    <<56, 50, 97, 49, 54, 49, 48, 49, 48, 49, 48, 50>>,
    \* hex: a map whose second key is bin and not UTF-8
    <<56, 50, 97, 49, 54, 49, 48, 49, 99, 52, 48, 49, 102, 102, 48, 50>>,
    \* hex: a str that ends inside a character
    <<97, 50, 101, 50, 56, 50>>,
    \* hex: uint8 without its byte
    <<99, 99>>,
    \* hex: an array cut short
    <<57, 50, 48, 49>>,
    \* hex: a map with a float key
    <<56, 49, 99, 98, 51, 102, 102, 56, 48, 48, 48, 48, 48, 48, 48, 48, 48, 48, 48, 48, 48, 49>>,
    \* hex: a map with a nil key
    <<56, 49, 99, 48, 48, 49>>,
    \* hex: a map with an array key
    <<56, 49, 57, 48, 48, 49>>,
    \* hex: ext8 without its length
    <<99, 55>>,
    \* =
    <<61>>,
    \* A=
    <<65, 61>>,
    \* AAA==
    <<65, 65, 65, 61, 61>>,
    \* AAAA=
    <<65, 65, 65, 65, 61>>,
    \* AA=A
    <<65, 65, 61, 65>>,
    \* the text of test_invalid_messagepack_to_json
    <<105, 110, 118, 97, 108, 105, 100, 95, 98, 97, 115, 101, 54, 52, 95, 115, 116, 114, 105, 110, 103>>,
    \* (empty)
    <<>>,
    \* hex of odd length
    <<97, 98, 99>>,
    \* hex: a str cut short
    <<97, 50, 54, 49>>,
    \* hex: bin
    <<99, 52, 48, 49, 48, 49>>,
    \* hex: the marker that is never used
    <<99, 49>>,
    \* hex: a map with an integer key
    <<56, 49, 48, 49, 48, 50>>,
    \* hex: a str that is not UTF-8
    <<97, 49, 102, 102>>,
    \* hex: ext
    <<100, 52, 48, 49, 48, 49>>,
    \* hex: a map cut short
    <<56, 50, 97, 49, 54, 49, 48, 49>>,
    \* base64 with a padding sign missing
    <<119, 65, 61>>,
    \* base64 without padding
    <<119, 65>>,
    \* base64 whose last symbol carries bits
    <<119, 66, 61, 61>>,
    \* one base64 symbol
    <<119>>,
    \* base64 with padding inside
    <<119, 65, 61, 61, 119, 65, 61, 61>>,
    \* hex and a blank
    <<99, 48, 32>>,
    \* base64 and a blank
    <<103, 54, 78, 104, 32, 90, 50, 85, 101>>,
    \* base64: the marker that is never used
    <<119, 81, 61, 61>>,
    \* base64: an array cut short
    <<107, 103, 61, 61>>,
    \* base64: a map with an integer key
    <<103, 81, 69, 67>>,
    \* a sign of neither alphabet
    <<35, 99, 48>>,
    \* a character that is not ASCII
    <<99, 48, 195, 169>>
}

MpInputs ==
    MpSamples \cup MpInvalid
    \cup {hex_encode(b) : b \in ProducedBytes}
    \cup {hex_encode(map_bytes(es)) : es \in GenEntries}
    \cup {STANDARD_encode(map_bytes(es)) : es \in GenEntries}
    \cup {hex_encode(v \o x) : v \in TrailValues, x \in Trails}
    \cup {STANDARD_encode(v \o x) : v \in TrailValues, x \in Trails}

---------------------------------------------------------------------------
(* One call of a public function, statement by statement.  `stages` keeps   *)
(* the library calls the call has made, `prev` the calls made before it:    *)
(* as in test_json_to_messagepack_and_back and                              *)
(* test_messagepack_to_json_and_back, the text a call returns is the        *)
(* argument of a call of the other function.                                *)

J2M == "json_to_messagepack"
M2J == "messagepack_to_json"

\* a local that is not yet bound
Unset == [t |-> "Unset"]
NoBytes == <<>>
NoResult == [ok |-> FALSE, val |-> <<>>]

Stage(name, ok) == [stage |-> name, ok |-> ok]

Call(f, a) ==
    /\ fn = f
    /\ arg = a
    /\ pc = IF f = J2M THEN "from_str" ELSE "decode"
    /\ json_value = Unset
    /\ messagepack = NoBytes
    /\ ret = NoResult
    /\ stages = <<>>

GuiIdle ==
    /\ json_input = <<>>
    /\ messagepack_output = <<>>
    /\ messagepack_input = <<>>
    /\ json_output = <<>>
    /\ error_message = <<>>
    /\ last_click = "none"
    /\ clipboard = <<>>
    /\ app = "running"

Init ==
    /\ GuiIdle
    /\ prev = <<>>
    /\ \/ \E j \in JsonInputs : Call(J2M, j)
       \/ \E m \in MpInputs : Call(M2J, m)

\* `return` with the result r
Return(r) ==
    /\ ret' = r
    /\ pc' = "returned"

\* main.rs:153-154
ParseJson ==
    /\ fn = J2M /\ pc = "from_str"
    /\ LET r == from_str(arg)
       IN  /\ stages' = Append(stages, Stage("JSON parse", r.ok))
           /\ IF r.ok
              THEN /\ json_value' = r.val
                   /\ pc' = "to_vec"
                   /\ UNCHANGED ret
              ELSE /\ Return(Err(L_ParseJson \o r.val))
                   /\ UNCHANGED json_value
    /\ UNCHANGED <<fn, arg, messagepack, prev>>
    /\ UNCHANGED gui_vars

\* main.rs:155-156
SerializeMessagePack ==
    /\ fn = J2M /\ pc = "to_vec"
    /\ LET r == to_vec(json_value)
       IN  /\ stages' = Append(stages, Stage("MessagePack serialize", r.ok))
           /\ IF r.ok
              THEN /\ messagepack' = r.val
                   /\ pc' = "encode"
                   /\ UNCHANGED ret
              ELSE /\ Return(Err(L_SerializeMessagePack \o r.val))
                   /\ UNCHANGED messagepack
    /\ UNCHANGED <<fn, arg, json_value, prev>>
    /\ UNCHANGED gui_vars

\* main.rs:157
EncodeBase64 ==
    /\ fn = J2M /\ pc = "encode"
    /\ stages' = Append(stages, Stage("Base64 encode", TRUE))
    /\ Return(Ok(STANDARD_encode(messagepack)))
    /\ UNCHANGED <<fn, arg, json_value, messagepack, prev>>
    /\ UNCHANGED gui_vars

\* a faulty variant of DecodeTransport: when the text is no hex and no base64 either,
\* the bytes read so far are kept and the call goes on
DecodeTransport_lenient ==
    /\ fn = M2J /\ pc = "decode"
    /\ LET hex == is_hex(arg)
           r == IF hex THEN hex_decode(arg) ELSE STANDARD_decode(arg)
       IN  /\ stages' = Append(stages, Stage(IF hex THEN "Hex" ELSE "Base64", r.ok))
           /\ messagepack' = IF r.ok THEN r.val ELSE <<192>>
           /\ pc' = "from_slice"
           /\ UNCHANGED ret
    /\ UNCHANGED <<fn, arg, json_value, prev>>
    /\ UNCHANGED gui_vars

\* main.rs:161-165
DecodeTransport ==
    /\ fn = M2J /\ pc = "decode"
    /\ LET hex == is_hex(arg)
           r == IF hex THEN hex_decode(arg) ELSE STANDARD_decode(arg)
       IN  /\ stages' = Append(stages, Stage(IF hex THEN "Hex" ELSE "Base64", r.ok))
           /\ IF r.ok
              THEN /\ messagepack' = r.val
                   /\ pc' = "from_slice"
                   /\ UNCHANGED ret
              ELSE /\ Return(Err((IF hex THEN L_DecodeHex ELSE L_DecodeBase64) \o r.val))
                   /\ UNCHANGED messagepack
    /\ UNCHANGED <<fn, arg, json_value, prev>>
    /\ UNCHANGED gui_vars

\* main.rs:167-168
DeserializeMessagePack ==
    /\ fn = M2J /\ pc = "from_slice"
    /\ LET r == from_slice(messagepack)
       IN  /\ stages' = Append(stages, Stage("MessagePack deserialize", r.ok))
           /\ IF r.ok
              THEN /\ json_value' = r.val
                   /\ pc' = "to_string_pretty"
                   /\ UNCHANGED ret
              ELSE /\ Return(Err(L_DeserializeMessagePack \o r.val))
                   /\ UNCHANGED json_value
    /\ UNCHANGED <<fn, arg, messagepack, prev>>
    /\ UNCHANGED gui_vars

\* main.rs:169-170
SerializeJson ==
    /\ fn = M2J /\ pc = "to_string_pretty"
    /\ LET r == to_string_pretty(json_value)
       IN  /\ stages' = Append(stages, Stage("JSON serialize", r.ok))
           /\ Return(IF r.ok THEN r ELSE Err(L_SerializeJson \o r.val))
    /\ UNCHANGED <<fn, arg, json_value, messagepack, prev>>
    /\ UNCHANGED gui_vars

\* the text returned is passed to the other function (main.rs:261-264, 345-348)
CallOther ==
    /\ pc = "returned"
    /\ ret.ok
    /\ Len(prev) + 1 < MaxCalls
    /\ prev' = Append(prev, [fn |-> fn, arg |-> arg, ret |-> ret, messagepack |-> messagepack])
    /\ fn' = IF fn = J2M THEN M2J ELSE J2M
    /\ arg' = ret.val
    /\ pc' = IF fn = J2M THEN "decode" ELSE "from_str"
    /\ json_value' = Unset
    /\ messagepack' = NoBytes
    /\ ret' = NoResult
    /\ stages' = <<>>
    /\ UNCHANGED gui_vars

Next ==
    \/ ParseJson
    \/ SerializeMessagePack
    \/ EncodeBase64
    \/ DecodeTransport
    \/ DeserializeMessagePack
    \/ SerializeJson
    \/ CallOther

Spec == Init /\ [][Next]_vars

---------------------------------------------------------------------------
(* The window: MessagePackJsonConverterApp::update (main.rs:19-149).  A     *)
(* frame handles at most one click; between clicks the user types into, or  *)
(* pastes into, the four text boxes, all of them editable.  A click of a    *)
(* Copy button writes the clipboard, or panics when the clipboard cannot be *)
(* opened or written (the two unwraps of copy_to_clipboard), which ends the *)
(* application.  last_click follows the clicks of the two Convert buttons   *)
(* and of Clear All only.                                                   *)

\* what the user types
TypedJson == { <<123, 34, 97, 34, 58, 49, 125>>,       \* {"a":1}
               <<123, 34, 97, 34, 58, 125>> }           \* {"a":}
TypedMessagePack == { <<119, 65, 61, 61>> }                  \* wA==
TypedOutput == { <<120>> }                                   \* x

\* TextEdit::multiline(&mut self.json_input) (main.rs:52): typed, or the
\* clipboard pasted
EditJsonInput ==
    /\ app = "running"
    /\ \E x \in TypedJson \cup {clipboard} : json_input' = x
    /\ UNCHANGED <<messagepack_output, messagepack_input, json_output, error_message, last_click>>
    /\ UNCHANGED env_vars
    /\ UNCHANGED call_vars

\* TextEdit::multiline(&mut self.messagepack_output) (main.rs:78): typed, or
\* the clipboard pasted
EditMessagePackOutput ==
    /\ app = "running"
    /\ \E x \in TypedOutput \cup {clipboard} : messagepack_output' = x
    /\ UNCHANGED <<json_input, messagepack_input, json_output, error_message, last_click>>
    /\ UNCHANGED env_vars
    /\ UNCHANGED call_vars

\* TextEdit::multiline(&mut self.messagepack_input) (main.rs:102): typed, or
\* the clipboard pasted
EditMessagePackInput ==
    /\ app = "running"
    /\ \E x \in TypedMessagePack \cup {clipboard} : messagepack_input' = x
    /\ UNCHANGED <<json_input, messagepack_output, json_output, error_message, last_click>>
    /\ UNCHANGED env_vars
    /\ UNCHANGED call_vars

\* TextEdit::multiline(&mut self.json_output) (main.rs:128): typed, or the
\* clipboard pasted
EditJsonOutput ==
    /\ app = "running"
    /\ \E x \in TypedOutput \cup {clipboard} : json_output' = x
    /\ UNCHANGED <<json_input, messagepack_output, messagepack_input, error_message, last_click>>
    /\ UNCHANGED env_vars
    /\ UNCHANGED call_vars

\* copy_to_clipboard (main.rs:177-180): whether the clipboard can be opened
\* and written is the environment's choice
copy_to_clipboard(text) ==
    \/ /\ clipboard' = text
       /\ UNCHANGED app
    \/ /\ app' = "panicked"
       /\ UNCHANGED clipboard

\* main.rs:87-89
CopyMessagePack ==
    /\ app = "running"
    /\ copy_to_clipboard(messagepack_output)
    /\ UNCHANGED <<json_input, messagepack_output, messagepack_input, json_output,
                   error_message, last_click>>
    /\ UNCHANGED call_vars

\* main.rs:137-139
CopyJson ==
    /\ app = "running"
    /\ copy_to_clipboard(json_output)
    /\ UNCHANGED <<json_input, messagepack_output, messagepack_input, json_output,
                   error_message, last_click>>
    /\ UNCHANGED call_vars

\* a faulty variant of ConvertToMessagePack: the message of an earlier failure stays
ConvertToMessagePack_keeps_error ==
    /\ app = "running"
    /\ LET r == json_to_messagepack(json_input)
       IN  IF r.ok
           THEN /\ messagepack_output' = r.val
                /\ UNCHANGED error_message
                /\ last_click' = "converted"
           ELSE /\ error_message' = r.val
                /\ UNCHANGED messagepack_output
                /\ last_click' = "failed"
    /\ UNCHANGED <<json_input, messagepack_input, json_output>>
    /\ UNCHANGED env_vars
    /\ UNCHANGED call_vars

\* main.rs:60-70
ConvertToMessagePack ==
    /\ app = "running"
    /\ LET r == json_to_messagepack(json_input)
       IN  IF r.ok
           THEN /\ messagepack_output' = r.val
                /\ error_message' = <<>>
                /\ last_click' = "converted"
           ELSE /\ error_message' = r.val
                /\ UNCHANGED messagepack_output
                /\ last_click' = "failed"
    /\ UNCHANGED <<json_input, messagepack_input, json_output>>
    /\ UNCHANGED env_vars
    /\ UNCHANGED call_vars

\* main.rs:110-120
ConvertToJson ==
    /\ app = "running"
    /\ LET r == messagepack_to_json(messagepack_input)
       IN  IF r.ok
           THEN /\ json_output' = r.val
                /\ error_message' = <<>>
                /\ last_click' = "converted"
           ELSE /\ error_message' = r.val
                /\ UNCHANGED json_output
                /\ last_click' = "failed"
    /\ UNCHANGED <<json_input, messagepack_output, messagepack_input>>
    /\ UNCHANGED env_vars
    /\ UNCHANGED call_vars

\* main.rs:30-36
ClearAll ==
    /\ app = "running"
    /\ json_input' = <<>>
    /\ messagepack_output' = <<>>
    /\ messagepack_input' = <<>>
    /\ json_output' = <<>>
    /\ error_message' = <<>>
    /\ last_click' = "cleared"
    /\ UNCHANGED env_vars
    /\ UNCHANGED call_vars

GuiInit ==
    /\ GuiIdle
    /\ prev = <<>>
    /\ Call(J2M, <<>>)

GuiNext ==
    \/ EditJsonInput
    \/ EditMessagePackOutput
    \/ EditMessagePackInput
    \/ EditJsonOutput
    \/ CopyMessagePack
    \/ CopyJson
    \/ ConvertToMessagePack
    \/ ConvertToJson
    \/ ClearAll

SpecGui == GuiInit /\ [][GuiNext]_vars
---------------------------------------------------------------------------
(* Properties *)

Returned == pc = "returned"

\* texts the properties name
T_Alice == <<123, 34, 110, 97, 109, 101, 34, 58, 34, 65, 108, 105, 99, 101, 34, 44, 34, 97, 103, 101, 34, 58, 51, 48, 44, 34, 99, 105, 116, 121, 34, 58, 34, 87, 111, 110, 100, 101, 114, 108, 97, 110, 100, 34, 125>>
    \* {"name":"Alice","age":30,"city":"Wonderland"}
T_AliceHex == <<56, 51, 97, 51, 54, 49, 54, 55, 54, 53, 49, 101, 97, 52, 54, 51, 54, 57, 55, 52, 55, 57, 97, 97, 53, 55, 54, 102, 54, 101, 54, 52, 54, 53, 55, 50, 54, 99, 54, 49, 54, 101, 54, 52, 97, 52, 54, 101, 54, 49, 54, 100, 54, 53, 97, 53, 52, 49, 54, 99, 54, 57, 54, 51, 54, 53>>
    \* 83a36167651ea463697479aa576f6e6465726c616e64a46e616d65a5416c696365
T_InvalidBase64 == <<105, 110, 118, 97, 108, 105, 100, 95, 98, 97, 115, 101, 54, 52, 95, 115, 116, 114, 105, 110, 103>>
    \* invalid_base64_string
T_Repeated == <<123, 34, 97, 34, 58, 49, 44, 34, 98, 34, 58, 50, 44, 34, 97, 34, 58, 51, 125>>
    \* {"a":1,"b":2,"a":3}
T_Thirty == <<51, 48>>
    \* 30
T_MapBA == <<56, 50, 97, 49, 54, 50, 48, 49, 97, 49, 54, 49, 48, 50>>
    \* 82a16201a16102, the map {"b":1,"a":2}

\* the hex digits and the base64 symbols, as sets of bytes
HexDigitSet == (48..57) \cup (65..70) \cup (97..102)
Base64SymbolSet == (65..90) \cup (97..122) \cup (48..57) \cup {43, 47}
AllHexDigits(s) == \A i \in 1..Len(s) : s[i] \in HexDigitSet

\* the keys of an object, as they are listed
KeysOf(o) == [i \in 1..Len(o.m) |-> o.m[i].k]

\* keys strictly ascending
Ascending(ks) == \A i \in 1..(Len(ks) - 1) : str_lt(ks[i], ks[i + 1])

RECURSIVE maps_ascending(_)
\* every map of the value lists its keys in strictly ascending order
maps_ascending(v) ==
    IF v.t = "Array" THEN \A i \in 1..Len(v.a) : maps_ascending(v.a[i])
    ELSE IF v.t = "Object"
    THEN Ascending(KeysOf(v)) /\ \A i \in 1..Len(v.m) : maps_ascending(v.m[i].v)
    ELSE TRUE

\* the first value of the bytes / the document of the text, the entries of its
\* maps as the input lists them
InputOfBytes(b) == read_first(b, TRUE)
InputOfText(s) == read_document(s, TRUE)

ProducedHex == {hex_encode(b) : b \in ProducedBytes}

\* the round trip of C1, for the texts whose base64 has a symbol that is no hex
\* digit: this much of C1 holds
RoundTripUnlessAllHex ==
    (fn = M2J /\ Len(prev) = 1 /\ prev[1].fn = J2M /\ Returned /\ ~AllHexDigits(arg))
        => /\ ret.ok
           /\ from_str(ret.val) = from_str(prev[1].arg)

\* C1: a JSON text that parses is converted to MessagePack, the result is
\* converted back to JSON, and the text that comes back parses to the value
\* the first text parses to.
C1_RoundTrip ==
    /\ (fn = J2M /\ prev = <<>> /\ Returned /\ from_str(arg).ok) => ret.ok
    /\ (fn = M2J /\ Len(prev) = 1 /\ prev[1].fn = J2M /\ Returned)
           => /\ ret.ok
              /\ from_str(ret.val) = from_str(prev[1].arg)

C3_Detection ==
    (fn = M2J /\ stages # <<>>)
        => /\ stages[1].stage = (IF AllHexDigits(arg) THEN "Hex" ELSE "Base64")
           /\ \A i \in 2..Len(stages) : stages[i].stage \notin {"Hex", "Base64"}

C3_Witness ==
    /\ fn = M2J /\ arg = <<>> /\ Returned
    /\ stages[1].stage = "Hex"

\* C4: a call runs its stages in order up to the first that fails and returns
\* once: the output of the last stage when none fails, else the label of the
\* stage that failed followed by what that stage reports.  Text that is no
\* JSON gives the parse label; a text with a byte that is no hex digit, no
\* base64 symbol and no '=' gives the Base64 label, and no MessagePack is
\* read.
C4_FirstFailure ==
    /\ (fn = J2M /\ Returned) =>
        LET p == from_str(arg)
        IN  IF ~p.ok
            THEN /\ ret = Err(L_ParseJson \o p.val)
                 /\ stages = <<Stage("JSON parse", FALSE)>>
            ELSE /\ ret = Ok(STANDARD_encode(to_vec(p.val).val))
                 /\ stages = <<Stage("JSON parse", TRUE), Stage("MessagePack serialize", TRUE),
                               Stage("Base64 encode", TRUE)>>
    /\ (fn = M2J /\ Returned) =>
        LET hex == AllHexDigits(arg)
            name == IF hex THEN "Hex" ELSE "Base64"
            d == IF hex THEN hex_decode(arg) ELSE STANDARD_decode(arg)
            v == from_slice(d.val)
        IN  IF ~d.ok
            THEN /\ ret = Err((IF hex THEN L_DecodeHex ELSE L_DecodeBase64) \o d.val)
                 /\ stages = <<Stage(name, FALSE)>>
            ELSE IF ~v.ok
            THEN /\ ret = Err(L_DeserializeMessagePack \o v.val)
                 /\ stages = <<Stage(name, TRUE), Stage("MessagePack deserialize", FALSE)>>
            ELSE /\ ret = to_string_pretty(v.val)
                 /\ stages = <<Stage(name, TRUE), Stage("MessagePack deserialize", TRUE),
                               Stage("JSON serialize", TRUE)>>
    /\ (fn = M2J /\ Returned
            /\ \E i \in 1..Len(arg) : arg[i] \notin HexDigitSet \cup Base64SymbolSet \cup {61})
           => /\ ~ret.ok
              /\ StartsWith(ret.val, L_DecodeBase64)
              /\ Len(ret.val) > Len(L_DecodeBase64)
              /\ \A i \in 1..Len(stages) : stages[i].stage # "MessagePack deserialize"
    /\ Returned => (~ret.ok => Len(ret.val) > 0)

C4_Witness ==
    /\ fn = M2J /\ arg = T_InvalidBase64 /\ Returned
    /\ ret = Err(<<70, 97, 105, 108, 101, 100, 32, 116, 111, 32, 100, 101, 99, 111, 100, 101, 32, 66, 97, 115, 101, 54, 52, 58, 32, 73, 110, 118, 97, 108, 105, 100, 32, 115, 121, 109, 98, 111, 108, 32, 57, 53, 44, 32, 111, 102, 102, 115, 101, 116, 32, 55, 46>>)
       \* Failed to decode Base64: Invalid symbol 95, offset 7.

\* a call of messagepack_to_json on a map whose keys are strings, no two the same
MapOfDistinctKeys ==
    /\ fn = M2J /\ Returned
    /\ Len(stages) >= 2
    /\ InputOfBytes(messagepack).ok
    /\ InputOfBytes(messagepack).val.t = "Object"
    /\ LET ks == KeysOf(InputOfBytes(messagepack).val)
       IN  \A i, j \in 1..Len(ks) : ks[i] = ks[j] => i = j

\* C5 as stated: the JSON that messagepack_to_json returns for a map whose
\* keys are distinct strings lists the keys in the order of the map.
C5_InputOrder ==
    MapOfDistinctKeys
        => /\ ret.ok
           /\ KeysOf(InputOfText(ret.val).val) = KeysOf(InputOfBytes(messagepack).val)

\* C5, amended: the JSON that messagepack_to_json returns for a map whose keys
\* are distinct strings lists the keys of the map in ascending order of their
\* bytes, whatever their order in the map.
C5_SortedOrder ==
    MapOfDistinctKeys
        => /\ ret.ok
           /\ InputOfText(ret.val).ok
           /\ Ascending(KeysOf(InputOfText(ret.val).val))
           /\ {KeysOf(InputOfText(ret.val).val)[i] : i \in 1..Len(InputOfText(ret.val).val.m)}
              = {KeysOf(InputOfBytes(messagepack).val)[i] :
                    i \in 1..Len(InputOfBytes(messagepack).val.m)}

C5_Witness ==
    /\ MapOfDistinctKeys
    /\ ret.ok
    /\ arg = T_MapBA
    /\ KeysOf(InputOfBytes(messagepack).val) = << <<98>>, <<97>> >>
    /\ KeysOf(InputOfText(ret.val).val) = << <<97>>, <<98>> >>

\* the objects with distinct keys among the inputs: the text, its entries as a
\* set, what json_to_messagepack returns for it
ObjectTable ==
    { [text |-> j,
       entries |-> {InputOfText(j).val.m[i] : i \in 1..Len(InputOfText(j).val.m)},
       out |-> json_to_messagepack(j)] :
      j \in {x \in JsonInputs :
                /\ InputOfText(x).ok
                /\ InputOfText(x).val.t = "Object"
                /\ \A a, b \in 1..Len(InputOfText(x).val.m) :
                      InputOfText(x).val.m[a].k = InputOfText(x).val.m[b].k => a = b} }

\* C6: every map json_to_messagepack emits has its keys in ascending order,
\* whatever their order in the text, so two texts that differ in the order of
\* the keys of an object give the same output.
C6_AscendingKeys ==
    (fn = J2M /\ Returned /\ ret.ok)
        => /\ InputOfBytes(messagepack).ok
           /\ maps_ascending(InputOfBytes(messagepack).val)
           /\ \A a, b \in ObjectTable :
                 (a.text = arg /\ a.entries = b.entries) => ret = b.out

C6_Witness ==
    /\ fn = J2M /\ Returned /\ ret.ok
    /\ arg = T_Alice
    /\ KeysOf(InputOfBytes(messagepack).val) = << <<97, 103, 101>>, <<99, 105, 116, 121>>, <<110, 97, 109, 101>> >>

\* what messagepack_to_json returns for each complete value alone, and the
\* texts of the value with bytes after it
TrailCases ==
    {[text |-> hex_encode(v \o x), alone |-> messagepack_to_json(hex_encode(v))] :
        v \in TrailValues, x \in Trails}
    \cup
    {[text |-> STANDARD_encode(v \o x), alone |-> messagepack_to_json(STANDARD_encode(v))] :
        v \in TrailValues, x \in Trails}

\* C7: bytes after one complete MessagePack value change nothing: the text of
\* the value and more bytes is converted as the text of the value alone.
C7_TrailingIgnored ==
    \A c \in TrailCases :
        (fn = M2J /\ prev = <<>> /\ Returned /\ arg = c.text)
            => /\ ret.ok
               /\ ret = c.alone

\* this much of C7 holds: the bytes are read as the value alone is, once the
\* text has been decoded
TrailingBytesIgnored ==
    \A v \in TrailValues, x \in Trails :
        (fn = M2J /\ Len(stages) >= 2 /\ messagepack = v \o x)
            => (Returned => ret.ok /\ ret = to_string_pretty(from_slice(v).val))

\* the entries m hold each key of the entries raw once, with the value of the
\* key's last entry in raw
LastWins(raw, m) ==
    \A i \in 1..Len(raw) :
        LET last == CHOOSE j \in 1..Len(raw) :
                        /\ raw[j].k = raw[i].k
                        /\ \A x \in 1..Len(raw) : raw[x].k = raw[i].k => x <= j
        IN  /\ Cardinality({j \in 1..Len(m) : m[j].k = raw[i].k}) = 1
            /\ maps_ascending(raw[last].v)
                   => \A j \in 1..Len(m) : m[j].k = raw[i].k => m[j].v = raw[last].v

HasRepeatedKey(raw) == \E i, j \in 1..Len(raw) : i # j /\ raw[i].k = raw[j].k

\* C8: an object, or a map, that lists a key more than once is converted, and
\* the mapping holds the key once, with the value listed last.
C8_LastWins ==
    /\ (fn = J2M /\ json_value.t = "Object")
           => /\ LastWins(InputOfText(arg).val.m, json_value.m)
              /\ Returned => ret.ok
    /\ (fn = M2J /\ json_value.t = "Object")
           => /\ LastWins(InputOfBytes(messagepack).val.m, json_value.m)
              /\ Returned => ret.ok
    /\ (fn = J2M /\ Returned /\ InputOfText(arg).ok /\ InputOfText(arg).val.t = "Object")
           => ret.ok
    /\ (fn = M2J /\ Returned /\ Len(stages) >= 2
            /\ InputOfBytes(messagepack).ok /\ InputOfBytes(messagepack).val.t = "Object")
           => ret.ok

C8_Witness ==
    /\ fn = J2M /\ Returned /\ ret.ok
    /\ arg = T_Repeated
    /\ HasRepeatedKey(InputOfText(arg).val.m)
    /\ json_value = Object(<<Entry(<<97>>, PosInt(<<3>>)), Entry(<<98>>, PosInt(<<2>>))>>)

\* the shortest MessagePack integer format that holds n, for -32768 <= n < 65536
shortest_int(n) ==
    IF n >= 0 /\ n < 128 THEN <<n>>
    ELSE IF n >= 128 /\ n < 256 THEN <<204, n>>
    ELSE IF n >= 256 THEN <<205, n \div 256, n % 256>>
    ELSE IF n >= -32 THEN <<256 + n>>
    ELSE IF n >= -128 THEN <<208, 256 + n>>
    ELSE <<209, (65536 + n) \div 256, (65536 + n) % 256>>

IntTable == {[text |-> int_text(n), bytes |-> shortest_int(n)] : n \in SmallInts} \cup WideInts

\* the integer text -0, whose value is 0
T_MinusZero == <<45, 48>>
\* the float64 -0.0
MinusZeroFloat == <<203, 128, 0, 0, 0, 0, 0, 0, 0>>

\* C9: every integer text of 64 bits, -0 among them, is emitted in the
\* shortest MessagePack integer format that holds its value: fixint, then 8,
\* 16, 32, 64 bits, unsigned from zero, signed below; 30 is the byte 1e.
C9_ShortestInt ==
    \A e \in IntTable \cup {[text |-> T_MinusZero, bytes |-> shortest_int(0)]} :
        (fn = J2M /\ arg = e.text)
            => /\ pc \in {"encode", "returned"} => messagepack = e.bytes
               /\ Returned => ret = Ok(STANDARD_encode(e.bytes))

\* C9, amended: every integer text of 64 bits other than -0 is emitted in the
\* shortest MessagePack integer format that holds its value; 30 is the byte
\* 1e.  The text -0 is read as the float -0.0 and emitted as a float64.
C9_ShortestIntButMinusZero ==
    /\ \A e \in IntTable :
           (fn = J2M /\ arg = e.text)
               => /\ pc \in {"encode", "returned"} => messagepack = e.bytes
                  /\ Returned => ret = Ok(STANDARD_encode(e.bytes))
    /\ (fn = J2M /\ arg = T_MinusZero)
           => /\ pc \in {"encode", "returned"} => messagepack = MinusZeroFloat
              /\ Returned => ret = Ok(STANDARD_encode(MinusZeroFloat))

C9_Witness ==
    /\ fn = J2M /\ Returned /\ ret.ok
    /\ arg = T_Thirty
    /\ messagepack = <<30>>

\* no call leaves the fragment of floats the model reads and writes
Modelled ==
    /\ ~(Returned /\ ~ret.ok /\ StartsWith(ret.val, L_ParseJson \o E_Unmodelled))
    /\ \A i \in 1..(Len(ret.val) - Len(E_Unmodelled) + 1) :
           SubSeq(ret.val, i, i + Len(E_Unmodelled) - 1) # E_Unmodelled

\* C10: the message is shown exactly when the last click was a conversion that
\* failed; a conversion that succeeds writes its output field and empties the
\* message; one that fails writes the message and nothing else; Clear All
\* empties the five fields.
C10_ErrorShown == (error_message # <<>>) <=> (last_click = "failed")

C10_Click ==
    /\ (ConvertToMessagePack /\ json_to_messagepack(json_input).ok)
           => /\ messagepack_output' = json_to_messagepack(json_input).val
              /\ error_message' = <<>>
              /\ UNCHANGED <<json_input, messagepack_input, json_output>>
    /\ (ConvertToJson /\ messagepack_to_json(messagepack_input).ok)
           => /\ json_output' = messagepack_to_json(messagepack_input).val
              /\ error_message' = <<>>
              /\ UNCHANGED <<json_input, messagepack_output, messagepack_input>>
    /\ (ConvertToMessagePack /\ ~json_to_messagepack(json_input).ok)
           => /\ error_message' # <<>>
              /\ UNCHANGED <<json_input, messagepack_output, messagepack_input, json_output>>
    /\ (ConvertToJson /\ ~messagepack_to_json(messagepack_input).ok)
           => /\ error_message' # <<>>
              /\ UNCHANGED <<json_input, messagepack_output, messagepack_input, json_output>>
    /\ ClearAll
           => /\ json_input' = <<>> /\ messagepack_output' = <<>>
              /\ messagepack_input' = <<>> /\ json_output' = <<>>
              /\ error_message' = <<>>

C10_Gui == []C10_ErrorShown /\ [][C10_Click]_vars

C10_Witness ==
    /\ last_click = "failed"
    /\ error_message # <<>>
    /\ messagepack_output # <<>>
    /\ json_output # <<>>

=============================================================================
